---- MODULE Spec2Model ----
(***************************************************************************)
(* Model of the Meowate backend canister (src/src/backend/main.mo): the    *)
(* presence tracker, the matchmaking pool and pairing manager, and the     *)
(* signaling relay store.                                                  *)
(*                                                                         *)
(* Conventions                                                             *)
(*  - A Motoko option ?T is a sequence of length 0 (null) or 1 (?x).       *)
(*  - An OrderedMap is a function whose DOMAIN is the set of stored keys.  *)
(*  - Time.now() is counted in seconds (the code counts nanoseconds; every *)
(*    threshold of the code is a whole number of seconds).                 *)
(*  - A principal is a number; Principal.compare is the order of numbers.  *)
(*  - A call that traps rolls back: the action leaves the stores unchanged *)
(*    and records the error in `last`.                                     *)
(***************************************************************************)
EXTENDS Integers, Sequences, FiniteSets, TLC

(***************************************************************************)
(* Bounds of the model and input sets.                                     *)
(***************************************************************************)
MaxCandidates == 2
MaxRetryTimers == 3
MaxCounted == 4
MaxInFlight == 3
MaxVersion == 3

Principals == {1, 2, 3}
SignalingParties == {1, 2}
ProfileEditors == {2}
TimePoints == {300, 301}
\* Instants around the presence window and around the purge threshold.
PurgeTimePoints == {1, 301, 86400, 86401}
Offers == {"o1", "o2"}
Answers == {"a1"}
Candidates == {"c1", "c2"}
ClientPeers == {2}
\* The principal the client calls the actor with.
ClientCallers == {1}
ClientCandidates == {"c1"}
\* The sessions a poll of the relay store hands to the client.
PolledSessions == [offer : {<<>>, <<"o1">>}, answer : {<<>>, <<"a1">>},
                   iceCandidates : {<<>>, <<"c1">>}]
\* Polls with two candidates, one of them stored twice.
PolledCandidateLists == {<<>>, <<"c1">>, <<"c1", "c2">>, <<"c2", "c1", "c2">>}
ConnectionReports == {"connected", "disconnected", "failed"}
IceReports == {"checking", "connected", "failed", "disconnected"}
GatheringReports == {"gathering", "complete"}
\* The two clients of a sync session.
SyncClients == {1, 2}
SyncVersions == {1, 2}
SyncTimes == {10, 20}
\* The sync states a client submits: version and lastUpdated are the client's.
SyncStates == [videoId : {"v1"}, playbackPosition : {0}, isPlaying : {TRUE},
               version : SyncVersions, lastUpdated : SyncTimes]

VARIABLES
    now,               \* Time.now(), in seconds
    accessControlState,\* principal -> role ("admin", "user", "guest")
    userProfiles,      \* principal -> [onboardingComplete]
    activeUsers,       \* principal -> [principal, lastActive]
    matchmakingPool,   \* principal -> [principal, timeJoined, isActive]
    currentPairings,   \* text key -> [user1, user2, timestamp, isActive]
    signalingStorage,  \* text key -> [offer, answer, iceCandidates, lastUpdated]
    youtubeSessions,   \* text key -> [videoId, playbackPosition, isPlaying, version, lastUpdated]
    last,              \* the last call: [op, caller, peer, arg, status, value]
    \* The connection orchestrator of one client (useWebRTC).
    connection,            \* React state: [state, error, peer]; peer is an option
    localStreamRef,        \* TRUE when a local media stream is held
    peerConnectionRef,     \* an option: <<[signalingState, remoteDescription,
                           \* remoteCandidates]>>, the candidates given to
                           \* addIceCandidate in the order of the calls
    iceCandidatesQueueRef, \* remote candidates waiting for a remote description
    isOfferCreatorRef,
    retryTimeoutRef,       \* "null" or "set": the id of the last retry timer
    signalingTimeoutRef,   \* "null", "pending" or "fired": the id of the timer
    retryAttemptsRef,
    sentCandidatesRef,
    processedCandidatesRef,
    currentStateRef,
    currentPeerRef,
    hasProgressRef,
    retryTimers,           \* the retry timers pending in the browser
    startConnectionAwait,  \* TRUE while startConnection awaits the relay's createOffer
    attempt,               \* an option: [peer, cleanups] of the connection attempt
    disconnectedInRow,     \* "disconnected" reports since the last "connected"
    \* The network between the client and the actor.
    wire,                  \* TRUE when the relay calls of the client travel to the actor
    relayCalls,            \* the calls under way: a sequence of
                           \* [op, peer, arg, retries, status], status "sent"
                           \* until the actor ran the call
    \* The View Together page of each client.
    viewTogether           \* client -> [localVersionRef, localLastUpdatedRef,
                           \* pending (the write under way, an option),
                           \* sent (the versions written, in order),
                           \* written (the state written last, an option)]

orchestrator == <<connection, localStreamRef, peerConnectionRef, iceCandidatesQueueRef,
                  isOfferCreatorRef, retryTimeoutRef, signalingTimeoutRef,
                  retryAttemptsRef, sentCandidatesRef, processedCandidatesRef,
                  currentStateRef, currentPeerRef, hasProgressRef, retryTimers,
                  startConnectionAwait, attempt, disconnectedInRow, wire>>

vars == <<now, accessControlState, userProfiles, activeUsers, matchmakingPool,
          currentPairings, signalingStorage, youtubeSessions, last, orchestrator,
          relayCalls, viewTogether>>

stores == <<accessControlState, userProfiles, activeUsers, matchmakingPool,
            currentPairings, signalingStorage, youtubeSessions>>

\* The refs of a freshly mounted View Together page.
ViewTogetherMounted ==
    [localVersionRef |-> 0, localLastUpdatedRef |-> 0, pending |-> <<>>,
     sent |-> <<>>, written |-> <<>>]

(***************************************************************************)
(* OrderedMap operations.                                                  *)
(***************************************************************************)
MapPut(m, k, v) == [x \in (DOMAIN m) \cup {k} |-> IF x = k THEN v ELSE m[x]]

MapDelete(m, k) == [x \in (DOMAIN m) \ {k} |-> m[x]]

MapGet(m, k) == IF k \in DOMAIN m THEN <<m[k]>> ELSE <<>>

EmptyMap == [x \in {} |-> 0]

\* The keys of a principal map in iteration order (ascending Principal.compare).
RECURSIVE MapKeysInOrder(_)
MapKeysInOrder(S) ==
    IF S = {} THEN <<>>
    ELSE LET m == CHOOSE x \in S : \A y \in S : x <= y
         IN  <<m>> \o MapKeysInOrder(S \ {m})

(***************************************************************************)
(* Text of a principal and text keys.  Principal.toText is injective and   *)
(* the texts of user principals have one length, so the text of a          *)
(* principal is modelled as a text of one character.                       *)
(***************************************************************************)
Principal_toText(p) == <<p>>

Text_concat(a, b) == a \o b

\* Debug.trap: the call fails, nothing is committed.
RemoveAt(s, i) == SubSeq(s, 1, i - 1) \o SubSeq(s, i + 1, Len(s))

\* The position of the first matching call under way, or 0; sent tells whether
\* the actor has yet to run it.
RelayCallIndex(op, peer, arg, sent) ==
    LET matching == {i \in DOMAIN relayCalls :
                        /\ relayCalls[i].op = op
                        /\ relayCalls[i].peer = peer
                        /\ relayCalls[i].arg = arg
                        /\ (relayCalls[i].status = "sent") = sent}
    IN  IF matching = {} THEN 0 ELSE CHOOSE i \in matching : \A j \in matching : i <= j

\* The calls under way after the actor ran a call of the client with the
\* outcome status.  cleanupSignalingMutation.mutate is fire and forget, and a
\* candidate that was stored needs nothing more; the other outcomes wait for
\* the client.
RelayServed(op, caller, peer, arg, status) ==
    IF ~wire \/ caller \notin ClientCallers
    THEN relayCalls
    ELSE LET i == RelayCallIndex(op, peer, arg, TRUE)
         IN  IF i = 0
             THEN relayCalls
             ELSE IF \/ op = "cleanupSignalingState"
                     \/ (op = "exchangeCandidates" /\ status = "ok")
             THEN RemoveAt(relayCalls, i)
             ELSE [relayCalls EXCEPT ![i].status = status]

\* The clients' sync state after the actor ran a call: the write a client
\* handed to setSessionState.mutate is no longer under way.
SyncServed(op, caller, arg) ==
    IF /\ op = "setYouTubeSessionState"
       /\ caller \in SyncClients
       /\ viewTogether[caller].pending = <<arg>>
    THEN [viewTogether EXCEPT ![caller].pending = <<>>]
    ELSE viewTogether

\* Trap that commits the removal of the caller's presence record.
TrapKeepingWrite(op, caller, peer, arg, err) ==
    /\ last' = [op |-> op, caller |-> caller, peer |-> peer, arg |-> arg,
                status |-> err, value |-> <<>>]
    /\ relayCalls' = RelayServed(op, caller, peer, arg, err)
    /\ viewTogether' = SyncServed(op, caller, arg)
    /\ activeUsers' = MapDelete(activeUsers, caller)
    /\ UNCHANGED <<now, accessControlState, userProfiles, matchmakingPool,
                   currentPairings, signalingStorage, youtubeSessions, orchestrator>>

Trap(op, caller, peer, arg, err) ==
    /\ last' = [op |-> op, caller |-> caller, peer |-> peer, arg |-> arg,
                status |-> err, value |-> <<>>]
    /\ relayCalls' = RelayServed(op, caller, peer, arg, err)
    /\ viewTogether' = SyncServed(op, caller, arg)
    /\ UNCHANGED <<now, stores, orchestrator>>

Return(op, caller, peer, arg, value) ==
    /\ last' = [op |-> op, caller |-> caller, peer |-> peer, arg |-> arg,
                status |-> "ok", value |-> value]
    /\ relayCalls' = RelayServed(op, caller, peer, arg, "ok")
    /\ viewTogether' = SyncServed(op, caller, arg)
    /\ UNCHANGED orchestrator

(***************************************************************************)
(* Authorization (external collaborator).                                  *)
(***************************************************************************)
hasPermission(user, role) ==
    /\ user \in DOMAIN accessControlState
    /\ \/ accessControlState[user] = "admin"
       \/ accessControlState[user] = role
       \/ role = "guest"

(***************************************************************************)
(* Helper functions of the actor.                                          *)
(***************************************************************************)
activeThreshold == 5 * 60

hasCompletedOnboarding(user) ==
    IF user \in DOMAIN userProfiles
    THEN userProfiles[user].onboardingComplete
    ELSE FALSE

\* isUserActive that ends the window one second early.
isUserActiveBeforeThreshold(user) ==
    IF user \in DOMAIN activeUsers
    THEN now - activeUsers[user].lastActive < activeThreshold
    ELSE FALSE

isUserActive(user) ==
    IF user \in DOMAIN activeUsers
    THEN now - activeUsers[user].lastActive <= activeThreshold
    ELSE FALSE

isUserInMatchmakingPool(user) ==
    IF user \in DOMAIN matchmakingPool
    THEN matchmakingPool[user].isActive
    ELSE FALSE

isEligiblePeer(peer) ==
    hasCompletedOnboarding(peer) /\ isUserActive(peer) /\ isUserInMatchmakingPool(peer)

generatePairingKey(user1, user2) ==
    Text_concat(Principal_toText(user1), Principal_toText(user2))

areCurrentlyPaired(user1, user2) ==
    LET pairingKey == Text_concat(Principal_toText(user1), Principal_toText(user2))
    IN  IF pairingKey \in DOMAIN currentPairings
        THEN currentPairings[pairingKey].isActive
        ELSE FALSE

\* deactivatePreviousPairings that looks at user1 alone.
deactivatePreviousPairingsUser1Only(cp, user) ==
    [key \in DOMAIN cp |->
        IF cp[key].user1 = user /\ cp[key].isActive
        THEN [cp[key] EXCEPT !.isActive = FALSE]
        ELSE cp[key]]

\* The pairings after deactivatePreviousPairings(user) ran on the pairings cp.
deactivatePreviousPairings(cp, user) ==
    [key \in DOMAIN cp |->
        IF (cp[key].user1 = user \/ cp[key].user2 = user) /\ cp[key].isActive
        THEN [cp[key] EXCEPT !.isActive = FALSE]
        ELSE cp[key]]

\* filterEligiblePairsTest with a strict comparison of the time in the pool.
filterEligiblePairsTestStrict(user, poolEntry, caller) ==
    /\ user # caller
    /\ isEligiblePeer(user)
    /\ (now - poolEntry.timeJoined) < activeThreshold

\* The candidate test of filterEligiblePairs.
filterEligiblePairsTest(user, poolEntry, caller) ==
    /\ user # caller
    /\ isEligiblePeer(user)
    /\ (now - poolEntry.timeJoined) <= activeThreshold

\* activeEntries: the keys of the pool in iteration order.
filterEligiblePairs(activeEntries, caller) ==
    SelectSeq(activeEntries,
              LAMBDA user : filterEligiblePairsTest(user, matchmakingPool[user], caller))

(***************************************************************************)
(* Matchmaking pool and pairing manager.                                   *)
(***************************************************************************)
\* joinMatchmakingPool without the presence check.
joinMatchmakingPoolWithoutPresence(caller) ==
    IF ~hasPermission(caller, "user")
    THEN Trap("joinMatchmakingPool", caller, 0, "", "Unauthorized")
    ELSE IF ~hasCompletedOnboarding(caller)
    THEN Trap("joinMatchmakingPool", caller, 0, "", "NotOnboarded")
    ELSE /\ matchmakingPool' = MapPut(matchmakingPool, caller,
                [principal |-> caller, timeJoined |-> now, isActive |-> TRUE])
         /\ Return("joinMatchmakingPool", caller, 0, "", <<>>)
         /\ UNCHANGED <<now, accessControlState, userProfiles, activeUsers,
                        currentPairings, signalingStorage, youtubeSessions>>

joinMatchmakingPool(caller) ==
    IF ~hasPermission(caller, "user")
    THEN Trap("joinMatchmakingPool", caller, 0, "", "Unauthorized")
    ELSE IF ~hasCompletedOnboarding(caller)
    THEN Trap("joinMatchmakingPool", caller, 0, "", "NotOnboarded")
    ELSE IF ~isUserActive(caller)
    THEN Trap("joinMatchmakingPool", caller, 0, "", "NotActive")
    ELSE /\ matchmakingPool' = MapPut(matchmakingPool, caller,
                [principal |-> caller, timeJoined |-> now, isActive |-> TRUE])
         /\ Return("joinMatchmakingPool", caller, 0, "", <<>>)
         /\ UNCHANGED <<now, accessControlState, userProfiles, activeUsers,
                        currentPairings, signalingStorage, youtubeSessions>>

leaveMatchmakingPool(caller) ==
    IF ~hasPermission(caller, "user")
    THEN Trap("leaveMatchmakingPool", caller, 0, "", "Unauthorized")
    ELSE /\ matchmakingPool' = MapPut(matchmakingPool, caller,
                [principal |-> caller, timeJoined |-> now, isActive |-> FALSE])
         /\ Return("leaveMatchmakingPool", caller, 0, "", <<>>)
         /\ UNCHANGED <<now, accessControlState, userProfiles, activeUsers,
                        currentPairings, signalingStorage, youtubeSessions>>

\* firstOrNull that takes the last eligible peer.
firstOrNullLast(eligiblePeers) ==
    IF Len(eligiblePeers) = 0 THEN <<>> ELSE <<eligiblePeers[Len(eligiblePeers)]>>

\* The result of the switch on eligiblePeers.size().
firstOrNull(eligiblePeers) ==
    IF Len(eligiblePeers) = 0 THEN <<>> ELSE <<eligiblePeers[1]>>

findRandomPeer(caller) ==
    IF ~hasPermission(caller, "user")
    THEN Trap("findRandomPeer", caller, 0, "", "Unauthorized")
    ELSE IF ~hasCompletedOnboarding(caller)
    THEN Trap("findRandomPeer", caller, 0, "", "NotOnboarded")
    ELSE IF ~isUserActive(caller)
    THEN Trap("findRandomPeer", caller, 0, "", "NotActive")
    ELSE IF ~isUserInMatchmakingPool(caller)
    THEN Trap("findRandomPeer", caller, 0, "", "NotInPool")
    ELSE LET eligiblePeers ==
                 filterEligiblePairs(MapKeysInOrder(DOMAIN matchmakingPool), caller)
         IN  /\ Return("findRandomPeer", caller, 0, "", firstOrNull(eligiblePeers))
             /\ UNCHANGED <<now, stores>>

createPairing(user1, user2) ==
    [user1 |-> user1, user2 |-> user2, timestamp |-> now, isActive |-> TRUE]

\* matchWithPeerPairings without the reverse pairing.
matchWithPeerPairingsNoReverse(caller, peer) ==
    LET deactivated ==
            deactivatePreviousPairings(
                deactivatePreviousPairings(currentPairings, caller), peer)
    IN  MapPut(deactivated, generatePairingKey(caller, peer), createPairing(caller, peer))

\* The pairings matchWithPeer stores: the previous pairings of both users
\* deactivated, then the pairing and the reverse pairing put.
matchWithPeerPairings(caller, peer) ==
    LET deactivated ==
            deactivatePreviousPairings(
                deactivatePreviousPairings(currentPairings, caller), peer)
        pairingKey == generatePairingKey(caller, peer)
        reversePairingKey == generatePairingKey(peer, caller)
    IN  MapPut(MapPut(deactivated, pairingKey, createPairing(caller, peer)),
               reversePairingKey, createPairing(peer, caller))

\* matchWithPeerPool that deletes the caller alone.
matchWithPeerPoolCallerOnly(caller, peer) ==
    MapDelete(matchmakingPool, caller)

\* The pool matchWithPeer leaves: both users deleted.
matchWithPeerPool(caller, peer) ==
    MapDelete(MapDelete(matchmakingPool, caller), peer)

matchWithPeer(caller, peer) ==
    IF ~hasPermission(caller, "user")
    THEN Trap("matchWithPeer", caller, peer, "", "Unauthorized")
    ELSE IF ~hasCompletedOnboarding(caller)
    THEN Trap("matchWithPeer", caller, peer, "", "NotOnboarded")
    ELSE IF ~isUserActive(caller)
    THEN Trap("matchWithPeer", caller, peer, "", "NotActive")
    ELSE IF ~isUserInMatchmakingPool(caller)
    THEN Trap("matchWithPeer", caller, peer, "", "NotInPool")
    ELSE IF ~(hasPermission(peer, "user") /\ hasCompletedOnboarding(peer)
              /\ isUserActive(peer) /\ isUserInMatchmakingPool(peer))
    THEN Trap("matchWithPeer", caller, peer, "", "InvalidPeer")
    ELSE /\ currentPairings' = matchWithPeerPairings(caller, peer)
         /\ matchmakingPool' = matchWithPeerPool(caller, peer)
         /\ Return("matchWithPeer", caller, peer, "", generatePairingKey(caller, peer))
         /\ UNCHANGED <<now, accessControlState, userProfiles, activeUsers,
                        signalingStorage, youtubeSessions>>

\* removePreviousPairings that looks at user1 alone.
removePreviousPairingsUser1Only(cp, user) ==
    LET removed == {key \in DOMAIN cp : cp[key].user1 = user /\ cp[key].isActive}
    IN  [key \in (DOMAIN cp) \ removed |-> cp[key]]

\* The pairings after the removePreviousPairings closure of nextPeer ran.
removePreviousPairings(cp, user) ==
    LET removed == {key \in DOMAIN cp :
                        (cp[key].user1 = user \/ cp[key].user2 = user) /\ cp[key].isActive}
    IN  [key \in (DOMAIN cp) \ removed |-> cp[key]]

nextPeer(caller) ==
    IF ~hasPermission(caller, "user")
    THEN Trap("nextPeer", caller, 0, "", "Unauthorized")
    ELSE IF ~hasCompletedOnboarding(caller)
    THEN Trap("nextPeer", caller, 0, "", "NotOnboarded")
    ELSE IF ~isUserActive(caller)
    THEN Trap("nextPeer", caller, 0, "", "NotActive")
    ELSE IF ~isUserInMatchmakingPool(caller)
    THEN Trap("nextPeer", caller, 0, "", "NotInPool")
    ELSE LET eligiblePeers ==
                 filterEligiblePairs(MapKeysInOrder(DOMAIN matchmakingPool), caller)
         IN  \* every branch on the size of the pairings returns the first
             \* eligible peer, or null when there is none
             /\ currentPairings' = removePreviousPairings(currentPairings, caller)
             /\ Return("nextPeer", caller, 0, "", firstOrNull(eligiblePeers))
             /\ UNCHANGED <<now, accessControlState, userProfiles, activeUsers,
                            matchmakingPool, signalingStorage, youtubeSessions>>

(***************************************************************************)
(* Profiles and presence.                                                  *)
(***************************************************************************)
saveCallerUserProfile(caller, profile) ==
    IF ~hasPermission(caller, "user")
    THEN Trap("saveCallerUserProfile", caller, 0, "", "Unauthorized")
    ELSE /\ userProfiles' = MapPut(userProfiles, caller, profile)
         /\ Return("saveCallerUserProfile", caller, 0, "", <<>>)
         /\ UNCHANGED <<now, accessControlState, activeUsers, matchmakingPool,
                        currentPairings, signalingStorage, youtubeSessions>>

updateActivity(caller) ==
    IF ~hasPermission(caller, "user")
    THEN Trap("updateActivity", caller, 0, "", "Unauthorized")
    ELSE IF ~hasCompletedOnboarding(caller)
    THEN Trap("updateActivity", caller, 0, "", "NotOnboarded")
    ELSE /\ activeUsers' = MapPut(activeUsers, caller,
                [principal |-> caller, lastActive |-> now])
         /\ Return("updateActivity", caller, 0, "", <<>>)
         /\ UNCHANGED <<now, accessControlState, userProfiles, matchmakingPool,
                        currentPairings, signalingStorage, youtubeSessions>>

\* The query is open to every caller and reads the presence map alone.
getActiveUserCountValue ==
    Cardinality({user \in DOMAIN activeUsers :
                     now - activeUsers[user].lastActive <= activeThreshold})

getActiveUserCount ==
    /\ Return("getActiveUserCount", 0, 0, "", getActiveUserCountValue)
    /\ UNCHANGED <<now, stores>>

inactivityThreshold == 24 * 60 * 60

\* removeInactiveUsersStore with the presence window as its threshold.
removeInactiveUsersStorePresenceWindow ==
    LET removed == {principal \in DOMAIN activeUsers :
                        now - activeUsers[principal].lastActive > activeThreshold}
    IN  [principal \in (DOMAIN activeUsers) \ removed |-> activeUsers[principal]]

\* The presence map after the loop of removeInactiveUsers.
removeInactiveUsersStore ==
    LET removed == {principal \in DOMAIN activeUsers :
                        now - activeUsers[principal].lastActive > inactivityThreshold}
    IN  [principal \in (DOMAIN activeUsers) \ removed |-> activeUsers[principal]]

removeInactiveUsers(caller) ==
    IF ~hasPermission(caller, "admin")
    THEN Trap("removeInactiveUsers", caller, 0, "", "Unauthorized")
    ELSE /\ activeUsers' = removeInactiveUsersStore
         /\ Return("removeInactiveUsers", caller, 0, "", <<>>)
         /\ UNCHANGED <<now, accessControlState, userProfiles, matchmakingPool,
                        currentPairings, signalingStorage, youtubeSessions>>

\* The clock of the canister moves forward between calls, to the instant t.
AdvanceTime(t) ==
    /\ now < t
    /\ now' = t
    /\ last' = [op |-> "AdvanceTime", caller |-> 0, peer |-> 0, arg |-> "",
                status |-> "ok", value |-> <<>>]
    /\ UNCHANGED <<stores, orchestrator, relayCalls, viewTogether>>

(***************************************************************************)
(* Signaling relay store.                                                  *)
(***************************************************************************)
isSignalingParticipant(caller, peer, signalingKey) ==
    LET expectedKey1 == Text_concat(Principal_toText(caller), Principal_toText(peer))
        expectedKey2 == Text_concat(Principal_toText(peer), Principal_toText(caller))
    IN  signalingKey = expectedKey1 \/ signalingKey = expectedKey2

\* The key under which createOffer stores the session.
createOfferKey(caller, peer) ==
    Text_concat(Principal_toText(caller), Principal_toText(peer))

createOffer(caller, peer, offer) ==
    IF ~hasPermission(caller, "user")
    THEN Trap("createOffer", caller, peer, offer, "Unauthorized")
    ELSE IF ~hasCompletedOnboarding(caller)
    THEN Trap("createOffer", caller, peer, offer, "NotOnboarded")
    ELSE IF caller = peer
    THEN Trap("createOffer", caller, peer, offer, "SelfPeer")
    ELSE IF ~(hasPermission(peer, "user") /\ hasCompletedOnboarding(peer))
    THEN Trap("createOffer", caller, peer, offer, "InvalidPeer")
    ELSE IF ~isUserActive(peer)
    THEN Trap("createOffer", caller, peer, offer, "InvalidPeer")
    ELSE LET signalingKey == createOfferKey(caller, peer)
             signalingData == [offer |-> <<offer>>, answer |-> <<>>,
                               iceCandidates |-> <<>>, lastUpdated |-> now]
         IN  /\ signalingStorage' = MapPut(signalingStorage, signalingKey, signalingData)
             /\ Return("createOffer", caller, peer, offer, <<>>)
             /\ UNCHANGED <<now, accessControlState, userProfiles, activeUsers,
                            matchmakingPool, currentPairings, youtubeSessions>>

\* sendAnswerKey with the caller as the first party.
sendAnswerKeyCallerFirst(caller, peer) ==
    Text_concat(Principal_toText(caller), Principal_toText(peer))

\* The key under which sendAnswer looks the session up.
sendAnswerKey(caller, peer) ==
    Text_concat(Principal_toText(peer), Principal_toText(caller))

\* sendAnswerUpdate that takes the offer away as it stores the answer.
sendAnswerUpdateTakingOffer(signalingData, answer) ==
    [signalingData EXCEPT !.offer = <<>>, !.answer = <<answer>>, !.lastUpdated = now]

\* The session sendAnswer stores in place of signalingData.
sendAnswerUpdate(signalingData, answer) ==
    [signalingData EXCEPT !.answer = <<answer>>, !.lastUpdated = now]

sendAnswer(caller, peer, answer) ==
    IF ~hasPermission(caller, "user")
    THEN Trap("sendAnswer", caller, peer, answer, "Unauthorized")
    ELSE IF ~hasCompletedOnboarding(caller)
    THEN Trap("sendAnswer", caller, peer, answer, "NotOnboarded")
    ELSE IF caller = peer
    THEN Trap("sendAnswer", caller, peer, answer, "SelfPeer")
    ELSE IF ~(hasPermission(peer, "user") /\ hasCompletedOnboarding(peer))
    THEN Trap("sendAnswer", caller, peer, answer, "InvalidPeer")
    ELSE LET signalingKey == sendAnswerKey(caller, peer)
         IN  IF signalingKey \notin DOMAIN signalingStorage
             THEN \* "No matching offer found for this connection"
                  Trap("sendAnswer", caller, peer, answer, "NoOfferFound")
             ELSE IF signalingStorage[signalingKey].offer = <<>>
             THEN \* "Cannot send answer: No offer exists"
                  Trap("sendAnswer", caller, peer, answer, "NoOfferFound")
             ELSE /\ signalingStorage' =
                         MapPut(signalingStorage, signalingKey,
                                sendAnswerUpdate(signalingStorage[signalingKey], answer))
                  /\ Return("sendAnswer", caller, peer, answer, <<>>)
                  /\ UNCHANGED <<now, accessControlState, userProfiles, activeUsers,
                                 matchmakingPool, currentPairings, youtubeSessions>>

\* The key exchangeCandidates writes: the caller-first key when it is stored,
\* the peer-first key otherwise (also when neither is stored).
exchangeCandidatesKey(caller, peer) ==
    LET signalingKey1 == Text_concat(Principal_toText(caller), Principal_toText(peer))
        signalingKey2 == Text_concat(Principal_toText(peer), Principal_toText(caller))
    IN  IF MapGet(signalingStorage, signalingKey1) = <<>>
        THEN signalingKey2
        ELSE signalingKey1

\* exchangeCandidatesData that puts the candidate in front of the list.
exchangeCandidatesDataPrepend(signalingData, candidate) ==
    IF signalingData = <<>>
    THEN [offer |-> <<>>, answer |-> <<>>, iceCandidates |-> <<candidate>>,
          lastUpdated |-> now]
    ELSE [signalingData[1] EXCEPT
              !.iceCandidates = <<candidate>> \o signalingData[1].iceCandidates,
              !.lastUpdated = now]

\* The session exchangeCandidates stores, from the session found (an option).
exchangeCandidatesData(signalingData, candidate) ==
    IF signalingData = <<>>
    THEN [offer |-> <<>>, answer |-> <<>>, iceCandidates |-> <<candidate>>,
          lastUpdated |-> now]
    ELSE [signalingData[1] EXCEPT
              !.iceCandidates = signalingData[1].iceCandidates \o <<candidate>>,
              !.lastUpdated = now]

exchangeCandidates(caller, peer, candidate) ==
    IF ~hasPermission(caller, "user")
    THEN Trap("exchangeCandidates", caller, peer, candidate, "Unauthorized")
    ELSE IF ~hasCompletedOnboarding(caller)
    THEN Trap("exchangeCandidates", caller, peer, candidate, "NotOnboarded")
    ELSE IF caller = peer
    THEN Trap("exchangeCandidates", caller, peer, candidate, "SelfPeer")
    ELSE IF ~(hasPermission(peer, "user") /\ hasCompletedOnboarding(peer))
    THEN Trap("exchangeCandidates", caller, peer, candidate, "InvalidPeer")
    ELSE LET activeKey == exchangeCandidatesKey(caller, peer)
             signalingData == MapGet(signalingStorage, activeKey)
         IN  \* the candidate list cannot grow without bound in the model
             /\ signalingData # <<>> =>
                    Len(signalingData[1].iceCandidates) < MaxCandidates
             /\ signalingStorage' =
                    MapPut(signalingStorage, activeKey,
                           exchangeCandidatesData(signalingData, candidate))
             /\ Return("exchangeCandidates", caller, peer, candidate, <<>>)
             /\ UNCHANGED <<now, accessControlState, userProfiles, activeUsers,
                            matchmakingPool, currentPairings, youtubeSessions>>

\* getSignalingStateData that returns the first session of the store.
getSignalingStateDataFirstStored(caller, peer) ==
    IF DOMAIN signalingStorage = {}
    THEN <<>>
    ELSE <<signalingStorage[CHOOSE k \in DOMAIN signalingStorage : TRUE]>>

\* The session getSignalingState returns (an option): the caller-first key is
\* probed first, then the peer-first key.
getSignalingStateData(caller, peer) ==
    LET signalingKey1 == Text_concat(Principal_toText(caller), Principal_toText(peer))
        signalingKey2 == Text_concat(Principal_toText(peer), Principal_toText(caller))
    IN  IF MapGet(signalingStorage, signalingKey1) # <<>>
        THEN MapGet(signalingStorage, signalingKey1)
        ELSE MapGet(signalingStorage, signalingKey2)

getSignalingState(caller, peer) ==
    IF ~hasPermission(caller, "user")
    THEN Trap("getSignalingState", caller, peer, "", "Unauthorized")
    ELSE IF ~hasCompletedOnboarding(caller)
    THEN Trap("getSignalingState", caller, peer, "", "NotOnboarded")
    ELSE IF ~hasPermission(peer, "user")
    THEN Trap("getSignalingState", caller, peer, "", "InvalidPeer")
    ELSE LET signalingKey1 == Text_concat(Principal_toText(caller), Principal_toText(peer))
             signalingKey2 == Text_concat(Principal_toText(peer), Principal_toText(caller))
             foundKey == IF MapGet(signalingStorage, signalingKey1) # <<>>
                         THEN signalingKey1 ELSE signalingKey2
         IN  IF getSignalingStateData(caller, peer) # <<>>
                /\ ~isSignalingParticipant(caller, peer, foundKey)
             THEN Trap("getSignalingState", caller, peer, "", "Unauthorized")
             ELSE /\ Return("getSignalingState", caller, peer, "",
                            getSignalingStateData(caller, peer))
                  /\ UNCHANGED <<now, stores>>

\* cleanupSignalingStateStore that deletes the caller-first key only.
cleanupSignalingStateStoreCallerKeyOnly(caller, peer) ==
    MapDelete(signalingStorage,
              Text_concat(Principal_toText(caller), Principal_toText(peer)))

\* The signaling store cleanupSignalingState leaves: both keys deleted.
cleanupSignalingStateStore(caller, peer) ==
    LET signalingKey1 == Text_concat(Principal_toText(caller), Principal_toText(peer))
        signalingKey2 == Text_concat(Principal_toText(peer), Principal_toText(caller))
    IN  MapDelete(MapDelete(signalingStorage, signalingKey1), signalingKey2)

cleanupSignalingState(caller, peer) ==
    IF ~hasPermission(caller, "user")
    THEN Trap("cleanupSignalingState", caller, peer, "", "Unauthorized")
    ELSE IF ~hasCompletedOnboarding(caller)
    THEN Trap("cleanupSignalingState", caller, peer, "", "NotOnboarded")
    ELSE LET signalingKey1 == Text_concat(Principal_toText(caller), Principal_toText(peer))
             signalingKey2 == Text_concat(Principal_toText(peer), Principal_toText(caller))
             isParticipant1 == IF MapGet(signalingStorage, signalingKey1) = <<>>
                               THEN FALSE
                               ELSE isSignalingParticipant(caller, peer, signalingKey1)
             isParticipant2 == IF MapGet(signalingStorage, signalingKey2) = <<>>
                               THEN FALSE
                               ELSE isSignalingParticipant(caller, peer, signalingKey2)
         IN  IF ~(isParticipant1 \/ isParticipant2)
             THEN Trap("cleanupSignalingState", caller, peer, "", "Unauthorized")
             ELSE /\ signalingStorage' = cleanupSignalingStateStore(caller, peer)
                  /\ Return("cleanupSignalingState", caller, peer, "", <<>>)
                  /\ UNCHANGED <<now, accessControlState, userProfiles, activeUsers,
                                 matchmakingPool, currentPairings, youtubeSessions>>

\* The "|" of a session key: a character that is no character of a principal's text.
Delimiter == <<0>>

createYouTubeSessionKey(user1, user2) ==
    Text_concat(Text_concat(Principal_toText(user1), Delimiter), Principal_toText(user2))

isYouTubeSessionParticipant(sessionKey, caller, peer) ==
    LET expectedKey1 == createYouTubeSessionKey(caller, peer)
        expectedKey2 == createYouTubeSessionKey(peer, caller)
    IN  sessionKey = expectedKey1 \/ sessionKey = expectedKey2

\* setYouTubeSessionStateKey that always takes the caller-first key.
setYouTubeSessionStateKeyCallerFirst(caller, peer) ==
    createYouTubeSessionKey(caller, peer)

\* The key setYouTubeSessionState writes: a stored key of the pair when there
\* is one (the caller-first key before the peer-first key), the caller-first
\* key otherwise.
setYouTubeSessionStateKey(caller, peer) ==
    LET sessionKey1 == createYouTubeSessionKey(caller, peer)
        sessionKey2 == createYouTubeSessionKey(peer, caller)
        existingSession1 == MapGet(youtubeSessions, sessionKey1)
        existingSession2 == MapGet(youtubeSessions, sessionKey2)
    IN  IF existingSession1 # <<>> THEN sessionKey1
        ELSE IF existingSession2 # <<>> THEN sessionKey2
        ELSE sessionKey1

setYouTubeSessionState(caller, peer, state) ==
    IF ~hasPermission(caller, "user")
    THEN Trap("setYouTubeSessionState", caller, peer, state, "Unauthorized")
    ELSE IF ~hasCompletedOnboarding(caller)
    THEN Trap("setYouTubeSessionState", caller, peer, state, "NotOnboarded")
    ELSE IF caller = peer
    THEN Trap("setYouTubeSessionState", caller, peer, state, "SelfPeer")
    ELSE IF ~(hasPermission(peer, "user") /\ hasCompletedOnboarding(peer))
    THEN Trap("setYouTubeSessionState", caller, peer, state, "InvalidPeer")
    ELSE IF ~isUserActive(peer)
    THEN Trap("setYouTubeSessionState", caller, peer, state, "InvalidPeer")
    ELSE LET activeKey == setYouTubeSessionStateKey(caller, peer)
         IN  IF ~isYouTubeSessionParticipant(activeKey, caller, peer)
             THEN Trap("setYouTubeSessionState", caller, peer, state, "Unauthorized")
             ELSE /\ youtubeSessions' = MapPut(youtubeSessions, activeKey, state)
                  /\ Return("setYouTubeSessionState", caller, peer, state, <<>>)
                  /\ UNCHANGED <<now, accessControlState, userProfiles, activeUsers,
                                 matchmakingPool, currentPairings, signalingStorage>>

\* The state getYouTubeSessionState returns (an option): the caller-first key
\* is probed first, then the peer-first key.
getYouTubeSessionStateData(caller, peer) ==
    LET sessionKey1 == createYouTubeSessionKey(caller, peer)
        sessionKey2 == createYouTubeSessionKey(peer, caller)
    IN  IF MapGet(youtubeSessions, sessionKey1) # <<>>
        THEN MapGet(youtubeSessions, sessionKey1)
        ELSE MapGet(youtubeSessions, sessionKey2)

getYouTubeSessionState(caller, peer) ==
    IF ~hasPermission(caller, "user")
    THEN Trap("getYouTubeSessionState", caller, peer, "", "Unauthorized")
    ELSE IF ~hasCompletedOnboarding(caller)
    THEN Trap("getYouTubeSessionState", caller, peer, "", "NotOnboarded")
    ELSE IF ~hasPermission(peer, "user")
    THEN Trap("getYouTubeSessionState", caller, peer, "", "InvalidPeer")
    ELSE LET sessionKey1 == createYouTubeSessionKey(caller, peer)
             sessionKey2 == createYouTubeSessionKey(peer, caller)
             foundKey == IF MapGet(youtubeSessions, sessionKey1) # <<>>
                         THEN sessionKey1 ELSE sessionKey2
         IN  IF getYouTubeSessionStateData(caller, peer) # <<>>
                /\ ~isYouTubeSessionParticipant(foundKey, caller, peer)
             THEN Trap("getYouTubeSessionState", caller, peer, "", "Unauthorized")
             ELSE /\ Return("getYouTubeSessionState", caller, peer, "",
                            getYouTubeSessionStateData(caller, peer))
                  /\ UNCHANGED <<now, stores>>

cleanupYouTubeSessionState(caller, peer) ==
    IF ~hasPermission(caller, "user")
    THEN Trap("cleanupYouTubeSessionState", caller, peer, "", "Unauthorized")
    ELSE IF ~hasCompletedOnboarding(caller)
    THEN Trap("cleanupYouTubeSessionState", caller, peer, "", "NotOnboarded")
    ELSE LET sessionKey1 == createYouTubeSessionKey(caller, peer)
             sessionKey2 == createYouTubeSessionKey(peer, caller)
             isParticipant1 == IF MapGet(youtubeSessions, sessionKey1) = <<>>
                               THEN FALSE
                               ELSE isYouTubeSessionParticipant(sessionKey1, caller, peer)
             isParticipant2 == IF MapGet(youtubeSessions, sessionKey2) = <<>>
                               THEN FALSE
                               ELSE isYouTubeSessionParticipant(sessionKey2, caller, peer)
         IN  IF ~(isParticipant1 \/ isParticipant2)
             THEN Trap("cleanupYouTubeSessionState", caller, peer, "", "Unauthorized")
             ELSE /\ youtubeSessions' =
                         MapDelete(MapDelete(youtubeSessions, sessionKey1), sessionKey2)
                  /\ Return("cleanupYouTubeSessionState", caller, peer, "", <<>>)
                  /\ UNCHANGED <<now, accessControlState, userProfiles, activeUsers,
                                 matchmakingPool, currentPairings, signalingStorage>>

\* terminateSessionYouTube that deletes the caller-first key alone.
terminateSessionYouTubeCallerFirst(caller, peer) ==
    MapDelete(youtubeSessions, createYouTubeSessionKey(caller, peer))

\* The sync store terminateSession leaves: both keys of the pair deleted.
terminateSessionYouTube(caller, peer) ==
    LET sessionKey1 == createYouTubeSessionKey(caller, peer)
        sessionKey2 == createYouTubeSessionKey(peer, caller)
    IN  MapDelete(MapDelete(youtubeSessions, sessionKey1), sessionKey2)

\* terminateSession that also removes the caller's active pairings.
terminateSessionEndingPairing(caller, peer) ==
    IF ~hasPermission(caller, "user")
    THEN Trap("terminateSession", caller, peer, "", "Unauthorized")
    ELSE LET signalingKey1 == Text_concat(Principal_toText(caller), Principal_toText(peer))
             signalingKey2 == Text_concat(Principal_toText(peer), Principal_toText(caller))
         IN  /\ signalingStorage' =
                    MapDelete(MapDelete(signalingStorage, signalingKey1), signalingKey2)
             /\ activeUsers' = MapDelete(activeUsers, caller)
             /\ youtubeSessions' = terminateSessionYouTube(caller, peer)
             /\ currentPairings' = removePreviousPairings(currentPairings, caller)
             /\ Return("terminateSession", caller, peer, "", <<>>)
             /\ UNCHANGED <<now, accessControlState, userProfiles, matchmakingPool>>

terminateSession(caller, peer) ==
    IF ~hasPermission(caller, "user")
    THEN Trap("terminateSession", caller, peer, "", "Unauthorized")
    ELSE LET signalingKey1 == Text_concat(Principal_toText(caller), Principal_toText(peer))
             signalingKey2 == Text_concat(Principal_toText(peer), Principal_toText(caller))
         IN  /\ signalingStorage' =
                    MapDelete(MapDelete(signalingStorage, signalingKey1), signalingKey2)
             /\ activeUsers' = MapDelete(activeUsers, caller)
             /\ youtubeSessions' = terminateSessionYouTube(caller, peer)
             /\ Return("terminateSession", caller, peer, "", <<>>)
             /\ UNCHANGED <<now, accessControlState, userProfiles, matchmakingPool,
                            currentPairings>>

(***************************************************************************)
(* The connection orchestrator of one client (hook useWebRTC).  A handler  *)
(* runs to its end before the next event is taken; the effect that copies  *)
(* connection.state and connection.peer into currentStateRef and           *)
(* currentPeerRef runs with the render that follows the handler, so inside *)
(* a handler the two refs still hold the values from before it.            *)
(***************************************************************************)
MAX_RETRY_ATTEMPTS == 3

\* The refs of the hook, the browser's pending retry timers and the call
\* counters, as one record that the helpers of the hook transform.
Refs ==
    [peerConnectionRef |-> peerConnectionRef,
     iceCandidatesQueueRef |-> iceCandidatesQueueRef,
     isOfferCreatorRef |-> isOfferCreatorRef,
     retryTimeoutRef |-> retryTimeoutRef,
     signalingTimeoutRef |-> signalingTimeoutRef,
     retryAttemptsRef |-> retryAttemptsRef,
     sentCandidatesRef |-> sentCandidatesRef,
     processedCandidatesRef |-> processedCandidatesRef,
     hasProgressRef |-> hasProgressRef,
     retryTimers |-> retryTimers,
     startConnectionAwait |-> startConnectionAwait,
     attempt |-> attempt,
     disconnectedInRow |-> disconnectedInRow,
     relayCalls |-> relayCalls]

\* setConnection(c) followed by the render and its effect, and the refs r
\* the handler leaves.
Commit(c, r) ==
    /\ connection' = c
    /\ currentStateRef' = c.state
    /\ currentPeerRef' = c.peer
    /\ peerConnectionRef' = r.peerConnectionRef
    /\ iceCandidatesQueueRef' = r.iceCandidatesQueueRef
    /\ isOfferCreatorRef' = r.isOfferCreatorRef
    /\ retryTimeoutRef' = r.retryTimeoutRef
    /\ signalingTimeoutRef' = r.signalingTimeoutRef
    /\ retryAttemptsRef' = r.retryAttemptsRef
    /\ sentCandidatesRef' = r.sentCandidatesRef
    /\ processedCandidatesRef' = r.processedCandidatesRef
    /\ hasProgressRef' = r.hasProgressRef
    /\ retryTimers' = r.retryTimers
    /\ startConnectionAwait' = r.startConnectionAwait
    /\ attempt' = r.attempt
    /\ disconnectedInRow' = r.disconnectedInRow
    \* the model carries MaxInFlight calls at most
    /\ Len(r.relayCalls) <= MaxInFlight
    /\ relayCalls' = r.relayCalls
    /\ UNCHANGED <<now, stores, wire, viewTogether>>

\* A mutation of the relay goes out for peer.
Issue(r, op, peer, arg, retries) ==
    IF wire
    THEN [r EXCEPT !.relayCalls =
              Append(@, [op |-> op, peer |-> peer, arg |-> arg,
                         retries |-> retries, status |-> "sent"])]
    ELSE r

\* The event the orchestrator handled last.
Handled(op, peer, arg, value) ==
    last' = [op |-> op, caller |-> 0, peer |-> peer, arg |-> arg,
             status |-> "ok", value |-> value]

\* clearTimeout of a timer that fired is without effect.
clearSignalingTimeout(r) ==
    IF r.signalingTimeoutRef # "null"
    THEN [r EXCEPT !.signalingTimeoutRef = "null"]
    ELSE r

\* The timer is armed; its callback is signalingTimeout below.
startSignalingTimeout(r) ==
    [clearSignalingTimeout(r) EXCEPT !.hasProgressRef = FALSE,
                                     !.signalingTimeoutRef = "pending"]

markProgress(r) == [r EXCEPT !.hasProgressRef = TRUE]

\* cleanupSignalingMutation.mutate(peer): the relay cleanup call is issued.
cleanupSignalingMutation(r, peer) ==
    Issue(IF r.attempt # <<>> /\ r.attempt[1].peer = peer
          THEN [r EXCEPT !.attempt =
                    <<[peer |-> peer,
                       cleanups |-> IF r.attempt[1].cleanups < MaxCounted
                                    THEN r.attempt[1].cleanups + 1
                                    ELSE MaxCounted]>>]
          ELSE r,
          "cleanupSignalingState", peer, "", 0)

\* performFullCleanup that does not call the relay.
performFullCleanupLocalOnly(r) ==
    LET r1 == clearSignalingTimeout(r)
        r2 == IF r1.retryTimeoutRef # "null"
              THEN [r1 EXCEPT !.retryTimeoutRef = "null",
                              !.retryTimers = IF @ > 0 THEN @ - 1 ELSE 0]
              ELSE r1
        r3 == IF r2.peerConnectionRef # <<>>
              THEN [r2 EXCEPT !.peerConnectionRef = <<>>]
              ELSE r2
    IN  [r3 EXCEPT !.iceCandidatesQueueRef = <<>>,
                   !.sentCandidatesRef = {},
                   !.processedCandidatesRef = {},
                   !.isOfferCreatorRef = FALSE,
                   !.hasProgressRef = FALSE]

\* The retry timers were started with one delay, so the timer retryTimeoutRef
\* names is the last of the pending ones to fire: clearing it removes one
\* pending timer when one is left and is without effect after it fired.
performFullCleanup(r) ==
    LET r1 == clearSignalingTimeout(r)
        r2 == IF r1.retryTimeoutRef # "null"
              THEN [r1 EXCEPT !.retryTimeoutRef = "null",
                              !.retryTimers = IF @ > 0 THEN @ - 1 ELSE 0]
              ELSE r1
        r3 == IF r2.peerConnectionRef # <<>>
              THEN [r2 EXCEPT !.peerConnectionRef = <<>>]
              ELSE r2
        r4 == [r3 EXCEPT !.iceCandidatesQueueRef = <<>>,
                         !.sentCandidatesRef = {},
                         !.processedCandidatesRef = {},
                         !.isOfferCreatorRef = FALSE,
                         !.hasProgressRef = FALSE]
        peer == currentPeerRef
    IN  IF peer # <<>> THEN cleanupSignalingMutation(r4, peer[1]) ELSE r4

\* getUserMedia resolves (granted) or rejects.  The page asks while it holds
\* no stream.
requestMicrophonePermission(granted) ==
    /\ ~localStreamRef
    /\ IF granted
       THEN /\ localStreamRef' = TRUE
            /\ Commit([connection EXCEPT !.state = "idle", !.error = ""], Refs)
       ELSE /\ UNCHANGED localStreamRef
            /\ Commit([connection EXCEPT
                           !.state = "error",
                           !.error = "Microphone permission denied. Please allow access to continue."],
                      Refs)
    /\ Handled("requestMicrophonePermission", 0, granted, <<>>)

\* new RTCPeerConnection with the handlers below attached.
initializePeerConnection(r) ==
    [r EXCEPT !.peerConnectionRef =
                  <<[signalingState |-> "stable", remoteDescription |-> FALSE,
                     remoteCandidates |-> <<>>]>>]

\* startConnection up to the await of the relay's createOffer: the local
\* createOffer and setLocalDescription settle at once, and installing the
\* local offer marks progress through onsignalingstatechange.
startConnection(peer) ==
    /\ ~startConnectionAwait
    /\ UNCHANGED localStreamRef
    /\ Handled("startConnection", peer, "", <<>>)
    /\ IF ~localStreamRef
       THEN Commit([connection EXCEPT
                        !.state = "error",
                        !.error = "Local stream not available. Please grant microphone permission first."],
                   performFullCleanup(Refs))
       ELSE LET r1 == [performFullCleanup(Refs) EXCEPT
                           !.retryAttemptsRef = 0,
                           !.isOfferCreatorRef = TRUE,
                           !.attempt = <<[peer |-> peer, cleanups |-> 0]>>,
                           !.disconnectedInRow = 0]
                r2 == startSignalingTimeout(initializePeerConnection(r1))
                r3 == markProgress(
                          [r2 EXCEPT !.peerConnectionRef[1].signalingState =
                                         "have-local-offer",
                                     !.startConnectionAwait = TRUE])
                r4 == Issue(r3, "createOffer", peer, "o1", 0)
            IN  Commit([state |-> "connecting", error |-> "", peer |-> <<peer>>], r4)

\* The relay's createOffer call of startConnection settles.
startConnectionSettled(sent) ==
    LET answered == {i \in DOMAIN relayCalls :
                         /\ relayCalls[i].op = "createOffer"
                         /\ relayCalls[i].status # "sent"}
        r == IF wire
             THEN [Refs EXCEPT !.startConnectionAwait = FALSE,
                               !.relayCalls = RemoveAt(@, CHOOSE i \in answered : TRUE)]
             ELSE [Refs EXCEPT !.startConnectionAwait = FALSE]
    IN  /\ startConnectionAwait
        /\ wire => \E i \in answered : sent = (relayCalls[i].status = "ok")
        /\ UNCHANGED localStreamRef
        /\ Handled("startConnectionSettled", 0, sent, <<>>)
        /\ IF sent
           THEN Commit(connection, r)
           ELSE Commit([connection EXCEPT !.state = "error",
                                          !.error = "Failed to start connection"],
                       performFullCleanup(r))

acceptConnection(peer) ==
    /\ UNCHANGED localStreamRef
    /\ Handled("acceptConnection", peer, "", <<>>)
    /\ IF ~localStreamRef
       THEN Commit([connection EXCEPT
                        !.state = "error",
                        !.error = "Local stream not available. Please grant microphone permission first."],
                   performFullCleanup(Refs))
       ELSE LET r1 == [performFullCleanup(Refs) EXCEPT
                           !.retryAttemptsRef = 0,
                           !.isOfferCreatorRef = FALSE,
                           !.attempt = <<[peer |-> peer, cleanups |-> 0]>>,
                           !.disconnectedInRow = 0]
                r2 == startSignalingTimeout(initializePeerConnection(r1))
            IN  Commit([state |-> "connecting", error |-> "", peer |-> <<peer>>], r2)

\* The cause the signaling timer reports; it holds the word "timeout".
TimeoutCause ==
    "Connection timeout. The other user may have left or your network may be blocking the connection."

\* The callback of the signaling timer.
signalingTimeout ==
    /\ signalingTimeoutRef = "pending"
    /\ UNCHANGED localStreamRef
    /\ Handled("signalingTimeout", 0, "", <<>>)
    /\ LET r == [Refs EXCEPT !.signalingTimeoutRef = "fired"]
       IN  IF currentStateRef = "connecting" /\ ~hasProgressRef
           THEN Commit([connection EXCEPT
                            !.state = "error",
                            !.error = TimeoutCause],
                       performFullCleanup(r))
           ELSE Commit(connection, r)

\* The callback of a retry timer: ICE restart on the transport the ref holds.
retryTimeout ==
    /\ retryTimers > 0
    /\ UNCHANGED localStreamRef
    /\ Handled("retryTimeout", 0, "",
               IF peerConnectionRef # <<>> THEN <<"restartIce">> ELSE <<>>)
    /\ Commit(connection, [Refs EXCEPT !.retryTimers = @ - 1])

\* sendCandidate() of the handler: the peer is the one the transport object
\* was made for, and three retries follow a failure.
sendCandidate(r, candidate) ==
    IF r.attempt # <<>>
    THEN Issue(r, "exchangeCandidates", r.attempt[1].peer, candidate, 3)
    ELSE r

\* A candidate call failed: the catch block of sendCandidate sends it again
\* after a second while retries are left, whatever happened to the attempt.
sendCandidateFailed ==
    \E i \in DOMAIN relayCalls :
        /\ relayCalls[i].op = "exchangeCandidates"
        /\ relayCalls[i].status \notin {"sent", "ok"}
        /\ relayCalls' =
               IF relayCalls[i].retries > 0
               THEN [relayCalls EXCEPT ![i].retries = @ - 1, ![i].status = "sent"]
               ELSE RemoveAt(relayCalls, i)
        /\ last' = [op |-> "sendCandidateFailed", caller |-> 0,
                    peer |-> relayCalls[i].peer, arg |-> relayCalls[i].arg,
                    status |-> "ok", value |-> <<>>]
        /\ UNCHANGED <<now, stores, orchestrator, viewTogether>>

\* A call of the client does not reach the actor: the promise rejects.
relayCallRejected ==
    \E i \in DOMAIN relayCalls :
        /\ relayCalls[i].status = "sent"
        /\ relayCalls' =
               IF relayCalls[i].op = "cleanupSignalingState"
               THEN RemoveAt(relayCalls, i)
               ELSE [relayCalls EXCEPT ![i].status = "Rejected"]
        /\ last' = [op |-> "relayCallRejected", caller |-> 0,
                    peer |-> relayCalls[i].peer, arg |-> relayCalls[i].arg,
                    status |-> "ok", value |-> <<>>]
        /\ UNCHANGED <<now, stores, orchestrator, viewTogether>>

onicecandidate(candidate) ==
    /\ peerConnectionRef # <<>>
    /\ UNCHANGED localStreamRef
    /\ Handled("onicecandidate", 0, candidate, <<>>)
    /\ IF candidate \in sentCandidatesRef
       THEN Commit(connection, Refs)
       ELSE Commit(connection,
                   sendCandidate(
                       markProgress([Refs EXCEPT !.sentCandidatesRef = @ \cup {candidate}]),
                       candidate))

ontrack ==
    /\ peerConnectionRef # <<>>
    /\ UNCHANGED localStreamRef
    /\ Handled("ontrack", 0, "", <<>>)
    /\ Commit([connection EXCEPT !.state = "connected"],
              [clearSignalingTimeout(markProgress(Refs)) EXCEPT !.retryAttemptsRef = 0])

\* The number of "disconnected" reports in a row, counted up to MaxCounted.
CountDisconnected(r) ==
    [r EXCEPT !.disconnectedInRow = IF @ < MaxCounted THEN @ + 1 ELSE MaxCounted]

onconnectionstatechange(state) ==
    /\ peerConnectionRef # <<>>
    /\ UNCHANGED localStreamRef
    /\ Handled("onconnectionstatechange", 0, state, <<>>)
    /\ IF state = "connected"
       THEN Commit([connection EXCEPT !.state = "connected"],
                   [clearSignalingTimeout(markProgress(Refs)) EXCEPT
                        !.disconnectedInRow = 0])
       ELSE IF state = "disconnected"
       THEN IF retryAttemptsRef < MAX_RETRY_ATTEMPTS
            THEN \* the pending retry timers are bounded in the model
                 /\ retryTimers < MaxRetryTimers
                 /\ Commit([connection EXCEPT !.state = "disconnected"],
                           CountDisconnected(
                               [Refs EXCEPT !.retryAttemptsRef = @ + 1,
                                            !.retryTimeoutRef = "set",
                                            !.retryTimers = @ + 1]))
            ELSE Commit([connection EXCEPT
                             !.state = "error",
                             !.error = "Connection failed after multiple attempts. Please try again."],
                        CountDisconnected(Refs))
       ELSE IF state = "failed"
       THEN Commit([connection EXCEPT
                        !.state = "error",
                        !.error = "Connection failed. This may be due to network restrictions."],
                   Refs)
       ELSE IF state = "closed"
       THEN Commit([connection EXCEPT !.state = "idle"], Refs)
       ELSE Commit(connection, Refs)

oniceconnectionstatechange(iceState) ==
    /\ peerConnectionRef # <<>>
    /\ UNCHANGED localStreamRef
    /\ Handled("oniceconnectionstatechange", 0, iceState, <<>>)
    /\ IF iceState = "checking"
       THEN Commit(connection, markProgress(Refs))
       ELSE IF iceState = "connected" \/ iceState = "completed"
       THEN Commit(connection, markProgress(Refs))
       ELSE IF iceState = "failed"
       THEN Commit([connection EXCEPT
                        !.state = "error",
                        !.error = "Failed to establish connection. Network may be blocking relay servers."],
                   Refs)
       ELSE Commit(connection, Refs)

onicegatheringstatechange(gatheringState) ==
    /\ peerConnectionRef # <<>>
    /\ UNCHANGED localStreamRef
    /\ Handled("onicegatheringstatechange", 0, gatheringState, <<>>)
    /\ IF gatheringState = "gathering"
       THEN Commit(connection, markProgress(Refs))
       ELSE Commit(connection, Refs)

disconnect ==
    /\ UNCHANGED localStreamRef
    /\ Handled("disconnect", 0, "", <<>>)
    /\ Commit([state |-> "idle", error |-> "", peer |-> <<>>],
              performFullCleanup(Refs))

\* processQueuedCandidates: the queued candidates go to the transport.
processQueuedCandidates(r) ==
    IF r.peerConnectionRef = <<>> \/ r.iceCandidatesQueueRef = <<>>
    THEN r
    ELSE [r EXCEPT !.peerConnectionRef[1].remoteCandidates =
                       @ \o r.iceCandidatesQueueRef,
                   !.iceCandidatesQueueRef = <<>>]

\* The candidates of the polled session that the loop does not skip, in the
\* order of the session: those not processed before, each string once.
NewCandidates(r, iceCandidates) ==
    LET first == {i \in DOMAIN iceCandidates :
                     /\ iceCandidates[i] \notin r.processedCandidatesRef
                     /\ \A j \in 1..(i - 1) : iceCandidates[j] # iceCandidates[i]}
        Pick[i \in 0..Len(iceCandidates)] ==
            IF i = 0 THEN <<>>
            ELSE IF i \in first THEN Append(Pick[i - 1], iceCandidates[i])
            ELSE Pick[i - 1]
    IN  Pick[Len(iceCandidates)]

\* The part of handleSignalingData that takes the candidates of the session:
\* a candidate goes to the transport when it has a remote description and is
\* queued otherwise.
handleCandidates(r, iceCandidates) ==
    LET fresh == NewCandidates(r, iceCandidates)
    IN  [r EXCEPT !.processedCandidatesRef =
                      @ \cup {iceCandidates[i] : i \in 1..Len(iceCandidates)},
                  !.peerConnectionRef[1].remoteCandidates =
                      IF r.peerConnectionRef[1].remoteDescription
                      THEN @ \o fresh
                      ELSE @,
                  !.iceCandidatesQueueRef =
                      IF r.peerConnectionRef[1].remoteDescription
                      THEN @
                      ELSE @ \o fresh]

\* The effect on a change of the polled session; answerSent is the outcome of
\* the relay's sendAnswer call when the handler makes it.
handleSignalingData(signalingData, answerSent) ==
    /\ peerConnectionRef # <<>>
    /\ connection.peer # <<>>
    /\ UNCHANGED localStreamRef
    /\ Handled("handleSignalingData", connection.peer[1], signalingData, <<>>)
    /\ LET r1 == IF /\ isOfferCreatorRef
                    /\ signalingData.answer # <<>>
                    /\ peerConnectionRef[1].signalingState = "have-local-offer"
                 THEN processQueuedCandidates(markProgress(
                          [Refs EXCEPT
                               !.peerConnectionRef[1].signalingState = "stable",
                               !.peerConnectionRef[1].remoteDescription = TRUE]))
                 ELSE Refs
           answering == /\ ~r1.isOfferCreatorRef
                        /\ signalingData.offer # <<>>
                        /\ r1.peerConnectionRef[1].signalingState = "stable"
           \* the offer is installed, the answer is created and installed
           r2 == IF answering
                 THEN markProgress(
                          [r1 EXCEPT
                               !.peerConnectionRef[1].signalingState = "stable",
                               !.peerConnectionRef[1].remoteDescription = TRUE])
                 ELSE r1
       IN  IF answering /\ ~answerSent
           THEN Commit(connection, r2)
           ELSE Commit(connection,
                       handleCandidates(
                           IF answering THEN processQueuedCandidates(r2) ELSE r2,
                           signalingData.iceCandidates))

(***************************************************************************)
(* Specifications.                                                         *)
(***************************************************************************)
NoCall == [op |-> "init", caller |-> 0, peer |-> 0, arg |-> "",
           status |-> "ok", value |-> <<>>]

Init ==
    /\ now = 0
    /\ accessControlState = [p \in Principals |-> "user"]
    /\ userProfiles = [p \in Principals |-> [onboardingComplete |-> TRUE]]
    /\ activeUsers = [p \in Principals |-> [principal |-> p, lastActive |-> 0]]
    /\ matchmakingPool = EmptyMap
    /\ currentPairings = EmptyMap
    /\ signalingStorage = EmptyMap
    /\ youtubeSessions = EmptyMap
    /\ last = NoCall
    /\ connection = [state |-> "idle", error |-> "", peer |-> <<>>]
    /\ localStreamRef = FALSE
    /\ peerConnectionRef = <<>>
    /\ iceCandidatesQueueRef = <<>>
    /\ isOfferCreatorRef = FALSE
    /\ retryTimeoutRef = "null"
    /\ signalingTimeoutRef = "null"
    /\ retryAttemptsRef = 0
    /\ sentCandidatesRef = {}
    /\ processedCandidatesRef = {}
    /\ currentStateRef = "idle"
    /\ currentPeerRef = <<>>
    /\ hasProgressRef = FALSE
    /\ retryTimers = 0
    /\ startConnectionAwait = FALSE
    /\ attempt = <<>>
    /\ disconnectedInRow = 0
    /\ wire = FALSE
    /\ relayCalls = <<>>
    /\ viewTogether = [c \in SyncClients |-> ViewTogetherMounted]

\* The matchmaking pool and the pairing manager at one instant of the clock.
NextPairing ==
    \/ \E caller \in Principals : joinMatchmakingPool(caller)
    \/ \E caller \in Principals : leaveMatchmakingPool(caller)
    \/ \E caller \in Principals : findRandomPeer(caller)
    \/ \E caller \in Principals, peer \in Principals : matchWithPeer(caller, peer)
    \/ \E caller \in Principals : nextPeer(caller)

SpecPairing == Init /\ [][NextPairing]_vars

\* The waiting pool under presence, onboarding and the clock.  One participant
\* rewrites its profile while it waits.
NextPool ==
    \/ \E caller \in Principals : joinMatchmakingPool(caller)
    \/ \E caller \in Principals : leaveMatchmakingPool(caller)
    \/ \E caller \in Principals : findRandomPeer(caller)
    \/ \E caller \in Principals : updateActivity(caller)
    \/ getActiveUserCount
    \/ \E caller \in ProfileEditors, done \in BOOLEAN :
           saveCallerUserProfile(caller, [onboardingComplete |-> done])
    \/ \E t \in TimePoints : AdvanceTime(t)

SpecPool == Init /\ [][NextPool]_vars

\* The signaling relay store between the two parties of one pair, at one
\* instant of the clock.
NextSignaling ==
    \/ \E caller \in SignalingParties, peer \in SignalingParties, offer \in Offers :
           createOffer(caller, peer, offer)
    \/ \E caller \in SignalingParties, peer \in SignalingParties, answer \in Answers :
           sendAnswer(caller, peer, answer)
    \/ \E caller \in SignalingParties, peer \in SignalingParties,
          candidate \in Candidates :
           exchangeCandidates(caller, peer, candidate)
    \/ \E caller \in SignalingParties, peer \in SignalingParties :
           getSignalingState(caller, peer)
    \/ \E caller \in SignalingParties, peer \in SignalingParties :
           cleanupSignalingState(caller, peer)
    \/ \E caller \in SignalingParties, peer \in SignalingParties :
           terminateSession(caller, peer)
    \/ \E caller \in SignalingParties : updateActivity(caller)

SpecSignaling == Init /\ [][NextSignaling]_vars

\* The signaling relay store read by every participant, the third one
\* included, at one instant of the clock.
NextRelayRead ==
    \/ \E caller \in Principals, peer \in Principals, offer \in Offers :
           createOffer(caller, peer, offer)
    \/ \E caller \in Principals, peer \in Principals :
           getSignalingState(caller, peer)
    \/ \E caller \in Principals, peer \in Principals :
           cleanupSignalingState(caller, peer)

SpecRelayRead == Init /\ [][NextRelayRead]_vars

\* The watch-together store, at one instant of the clock.
NextSync ==
    \/ \E caller \in Principals, peer \in Principals, state \in SyncStates :
           setYouTubeSessionState(caller, peer, state)
    \/ \E caller \in Principals, peer \in Principals :
           getYouTubeSessionState(caller, peer)
    \/ \E caller \in Principals, peer \in Principals :
           cleanupYouTubeSessionState(caller, peer)
    \/ \E caller \in SignalingParties, peer \in SignalingParties :
           terminateSession(caller, peer)
    \/ \E caller \in SignalingParties : updateActivity(caller)

SpecSync == Init /\ [][NextSync]_vars

\* Ending a session: the relay, the sync store and presence together.
NextTerminate ==
    \/ \E caller \in SignalingParties, peer \in SignalingParties, offer \in Offers :
           createOffer(caller, peer, offer)
    \/ \E caller \in SignalingParties, peer \in SignalingParties, state \in SyncStates :
           setYouTubeSessionState(caller, peer, state)
    \/ \E caller \in SignalingParties, peer \in SignalingParties :
           terminateSession(caller, peer)
    \/ \E caller \in SignalingParties : updateActivity(caller)

SpecTerminate == Init /\ [][NextTerminate]_vars

\* Ending a session between paired participants: the pool, the pairings and
\* presence together.
NextSession ==
    \/ \E caller \in Principals : joinMatchmakingPool(caller)
    \/ \E caller \in Principals : \E peer \in Principals :
           matchWithPeer(caller, peer)
    \/ \E caller \in SignalingParties : \E peer \in SignalingParties :
           terminateSession(caller, peer)
    \/ \E caller \in SignalingParties : updateActivity(caller)

SpecSession == Init /\ [][NextSession]_vars

\* Every operation that checks a precondition, called by participant 1 for
\* participant 2, while participant 2 joins, sends heartbeats and writes an
\* offer, participant 1 edits their profile, and the clock runs past the
\* presence window.
NextPrecondition ==
    \/ \E caller \in SignalingParties : joinMatchmakingPool(caller)
    \/ findRandomPeer(1)
    \/ matchWithPeer(1, 2)
    \/ nextPeer(1)
    \/ \E caller \in SignalingParties : updateActivity(caller)
    \/ \E done \in BOOLEAN : saveCallerUserProfile(1, [onboardingComplete |-> done])
    \/ \E caller \in SignalingParties :
           \E peer \in SignalingParties \ {caller} : createOffer(caller, peer, "o1")
    \/ sendAnswer(1, 2, "a1")
    \/ exchangeCandidates(1, 2, "c1")
    \/ cleanupSignalingState(1, 2)
    \/ setYouTubeSessionState(1, 2, CHOOSE state \in SyncStates : TRUE)
    \/ cleanupYouTubeSessionState(1, 2)
    \/ AdvanceTime(301)

SpecPrecondition == Init /\ [][NextPrecondition]_vars

\* Presence and its purge.  Participant 1 holds the admin role.
InitPurge ==
    /\ now = 0
    /\ accessControlState = [p \in Principals |-> IF p = 1 THEN "admin" ELSE "user"]
    /\ userProfiles = [p \in Principals |-> [onboardingComplete |-> TRUE]]
    /\ activeUsers = [p \in Principals |-> [principal |-> p, lastActive |-> 0]]
    /\ matchmakingPool = EmptyMap
    /\ currentPairings = EmptyMap
    /\ signalingStorage = EmptyMap
    /\ youtubeSessions = EmptyMap
    /\ last = NoCall
    /\ connection = [state |-> "idle", error |-> "", peer |-> <<>>]
    /\ localStreamRef = FALSE
    /\ peerConnectionRef = <<>>
    /\ iceCandidatesQueueRef = <<>>
    /\ isOfferCreatorRef = FALSE
    /\ retryTimeoutRef = "null"
    /\ signalingTimeoutRef = "null"
    /\ retryAttemptsRef = 0
    /\ sentCandidatesRef = {}
    /\ processedCandidatesRef = {}
    /\ currentStateRef = "idle"
    /\ currentPeerRef = <<>>
    /\ hasProgressRef = FALSE
    /\ retryTimers = 0
    /\ startConnectionAwait = FALSE
    /\ attempt = <<>>
    /\ disconnectedInRow = 0
    /\ wire = FALSE
    /\ relayCalls = <<>>
    /\ viewTogether = [c \in SyncClients |-> ViewTogetherMounted]

NextPurge ==
    \/ \E caller \in Principals : updateActivity(caller)
    \/ \E caller \in Principals : removeInactiveUsers(caller)
    \/ getActiveUserCount
    \/ \E t \in PurgeTimePoints : AdvanceTime(t)

SpecPurge == InitPurge /\ [][NextPurge]_vars

\* The client and the actor with the network between them: the calls the
\* hook issues reach the actor in any order, or not at all.
InitWire ==
    /\ now = 0
    /\ accessControlState = [p \in Principals |-> "user"]
    /\ userProfiles = [p \in Principals |-> [onboardingComplete |-> TRUE]]
    /\ activeUsers = [p \in Principals |-> [principal |-> p, lastActive |-> 0]]
    /\ matchmakingPool = EmptyMap
    /\ currentPairings = EmptyMap
    /\ signalingStorage = EmptyMap
    /\ youtubeSessions = EmptyMap
    /\ last = NoCall
    /\ connection = [state |-> "idle", error |-> "", peer |-> <<>>]
    /\ localStreamRef = FALSE
    /\ peerConnectionRef = <<>>
    /\ iceCandidatesQueueRef = <<>>
    /\ isOfferCreatorRef = FALSE
    /\ retryTimeoutRef = "null"
    /\ signalingTimeoutRef = "null"
    /\ retryAttemptsRef = 0
    /\ sentCandidatesRef = {}
    /\ processedCandidatesRef = {}
    /\ currentStateRef = "idle"
    /\ currentPeerRef = <<>>
    /\ hasProgressRef = FALSE
    /\ retryTimers = 0
    /\ startConnectionAwait = FALSE
    /\ attempt = <<>>
    /\ disconnectedInRow = 0
    /\ wire = TRUE
    /\ relayCalls = <<>>
    /\ viewTogether = [c \in SyncClients |-> ViewTogetherMounted]

\* The actor runs a call that is under way.
RelayDelivers(op) ==
    \E i \in DOMAIN relayCalls :
        /\ relayCalls[i].status = "sent"
        /\ relayCalls[i].op = op
        /\ \E caller \in ClientCallers :
               CASE op = "createOffer" ->
                        createOffer(caller, relayCalls[i].peer, relayCalls[i].arg)
                 [] op = "exchangeCandidates" ->
                        exchangeCandidates(caller, relayCalls[i].peer, relayCalls[i].arg)
                 [] op = "cleanupSignalingState" ->
                        cleanupSignalingState(caller, relayCalls[i].peer)

NextWire ==
    \/ \E granted \in BOOLEAN : requestMicrophonePermission(granted)
    \/ \E peer \in ClientPeers : startConnection(peer)
    \/ \E sent \in BOOLEAN : startConnectionSettled(sent)
    \/ \E candidate \in ClientCandidates : onicecandidate(candidate)
    \/ disconnect
    \/ RelayDelivers("createOffer")
    \/ RelayDelivers("exchangeCandidates")
    \/ RelayDelivers("cleanupSignalingState")
    \/ relayCallRejected
    \/ sendCandidateFailed

SpecWire == InitWire /\ [][NextWire]_vars

\* A poll of useGetSignalingState answers with the session the actor returns
\* to the client for its peer, and the effect handles it.  The hook polls
\* while the state is connecting or connected.
pollSignalingState(answerSent) ==
    \E caller \in ClientCallers :
        /\ connection.peer # <<>>
        /\ connection.state \in {"connecting", "connected"}
        /\ hasPermission(caller, "user")
        /\ hasCompletedOnboarding(caller)
        /\ getSignalingStateData(caller, connection.peer[1]) # <<>>
        /\ handleSignalingData(getSignalingStateData(caller, connection.peer[1])[1],
                               answerSent)

\* The client as offer creator, its relay calls, its polls of the relay, and
\* the peer that answers and stores a candidate of its own.
NextRelayLoop ==
    \/ requestMicrophonePermission(TRUE)
    \/ \E peer \in ClientPeers : startConnection(peer)
    \/ \E sent \in BOOLEAN : startConnectionSettled(sent)
    \/ \E candidate \in ClientCandidates : onicecandidate(candidate)
    \/ disconnect
    \/ RelayDelivers("createOffer")
    \/ RelayDelivers("exchangeCandidates")
    \/ RelayDelivers("cleanupSignalingState")
    \/ \E caller \in ClientPeers, peer \in ClientCallers :
           sendAnswer(caller, peer, "a1")
    \/ \E caller \in ClientPeers, peer \in ClientCallers :
           exchangeCandidates(caller, peer, "r1")
    \/ pollSignalingState(TRUE)

SpecRelayLoop == InitWire /\ [][NextRelayLoop]_vars

\* The connection orchestrator of one client: the calls of the page, the
\* reports of the transport and the timers.
NextOrchestrator ==
    \/ \E granted \in BOOLEAN : requestMicrophonePermission(granted)
    \/ \E peer \in ClientPeers : startConnection(peer)
    \/ \E sent \in BOOLEAN : startConnectionSettled(sent)
    \/ \E peer \in ClientPeers : acceptConnection(peer)
    \/ signalingTimeout
    \/ retryTimeout
    \/ \E candidate \in ClientCandidates : onicecandidate(candidate)
    \/ ontrack
    \/ \E state \in ConnectionReports : onconnectionstatechange(state)
    \/ \E iceState \in IceReports : oniceconnectionstatechange(iceState)
    \/ \E gatheringState \in GatheringReports :
           onicegatheringstatechange(gatheringState)
    \/ disconnect

SpecOrchestrator == Init /\ [][NextOrchestrator]_vars

\* The browser fires a pending timer and settles a pending call; the page
\* and the transport owe nothing.
SpecOrchestratorFair ==
    /\ SpecOrchestrator
    /\ WF_vars(signalingTimeout)
    /\ WF_vars(retryTimeout)
    /\ WF_vars(\E sent \in BOOLEAN : startConnectionSettled(sent))

\* The orchestrator with the sessions it polls from the relay store.
NextHandshake ==
    \/ NextOrchestrator
    \/ \E signalingData \in PolledSessions, answerSent \in BOOLEAN :
           handleSignalingData(signalingData, answerSent)

SpecHandshake == Init /\ [][NextHandshake]_vars

\* The polls of one attempt after another: the page starts, accepts and
\* disconnects, and the polled session changes in any order.
NextPolling ==
    \/ requestMicrophonePermission(TRUE)
    \/ \E peer \in ClientPeers : startConnection(peer)
    \/ startConnectionSettled(TRUE)
    \/ \E peer \in ClientPeers : acceptConnection(peer)
    \/ \E offer \in {<<>>, <<"o1">>}, answer \in {<<>>, <<"a1">>},
          iceCandidates \in PolledCandidateLists, answerSent \in BOOLEAN :
           handleSignalingData([offer |-> offer, answer |-> answer,
                                iceCandidates |-> iceCandidates], answerSent)
    \/ disconnect

SpecPolling == Init /\ [][NextPolling]_vars

\* Every operation of the model.
Next ==
    \/ NextPairing
    \/ NextPool
    \/ NextSignaling
    \/ NextRelayRead
    \/ NextSync
    \/ NextHandshake
    \/ \E caller \in Principals, done \in BOOLEAN :
           saveCallerUserProfile(caller, [onboardingComplete |-> done])
    \/ \E caller \in Principals, peer \in Principals, offer \in Offers :
           createOffer(caller, peer, offer)
    \/ \E caller \in Principals, peer \in Principals, answer \in Answers :
           sendAnswer(caller, peer, answer)
    \/ \E caller \in Principals, peer \in Principals, candidate \in Candidates :
           exchangeCandidates(caller, peer, candidate)
    \/ \E caller \in Principals, peer \in Principals : getSignalingState(caller, peer)
    \/ \E caller \in Principals, peer \in Principals : cleanupSignalingState(caller, peer)
    \/ \E caller \in Principals, peer \in Principals : terminateSession(caller, peer)

Spec == Init /\ [][Next]_vars

(***************************************************************************)
(* Properties of the matchmaking pool and the pairing manager.             *)
(***************************************************************************)
\* The text key of the ordered pair (a, b).
KeyOf(a, b) == <<a, b>>

\* A pairing record is stored under the key of (a, b) and is active.
ActiveRecord(a, b) ==
    /\ KeyOf(a, b) \in DOMAIN currentPairings
    /\ currentPairings[KeyOf(a, b)].isActive
    /\ currentPairings[KeyOf(a, b)].user1 = a
    /\ currentPairings[KeyOf(a, b)].user2 = b

PairSucceeded == last.op = "matchWithPeer" /\ last.status = "ok"

\* C1: after pair(Q) succeeds for caller P, an active pairing record is stored
\* under the key of (P,Q) and under the key of (Q,P), and the pairing lookup
\* reports the two as paired in both directions.
C1_PairingSymmetric ==
    PairSucceeded =>
        /\ ActiveRecord(last.caller, last.peer)
        /\ ActiveRecord(last.peer, last.caller)
        /\ areCurrentlyPaired(last.caller, last.peer)
        /\ areCurrentlyPaired(last.peer, last.caller)

C1_Witness ==
    /\ PairSucceeded
    /\ last.caller # last.peer
    /\ areCurrentlyPaired(last.peer, last.caller)

\* The keys of the active pairing records that name p on either side.
ActiveRecordsOf(p) ==
    {key \in DOMAIN currentPairings :
        /\ currentPairings[key].isActive
        /\ (currentPairings[key].user1 = p \/ currentPairings[key].user2 = p)}

\* The other side of the record stored under key, seen from p.
PartnerIn(key, p) ==
    IF currentPairings[key].user1 = p
    THEN currentPairings[key].user2
    ELSE currentPairings[key].user1

\* C2: in every state, all active pairing records in which a participant
\* appears name one and the same partner; after a successful pair(Q) by P no
\* pairing of P or of Q with a third participant is active in either direction.
C2_OneActivePartner ==
    /\ \A p \in Principals :
           \A k1 \in ActiveRecordsOf(p), k2 \in ActiveRecordsOf(p) :
               PartnerIn(k1, p) = PartnerIn(k2, p)
    /\ PairSucceeded =>
           \A r \in Principals \ {last.caller, last.peer} :
               \A p \in {last.caller, last.peer} :
                   /\ ~areCurrentlyPaired(p, r)
                   /\ ~areCurrentlyPaired(r, p)

\* P was paired with Q, then paired with a third participant R.
C2_Witness ==
    \E p \in Principals, q \in Principals, r \in Principals :
        /\ p # q /\ p # r /\ q # r
        /\ KeyOf(p, q) \in DOMAIN currentPairings
        /\ KeyOf(q, p) \in DOMAIN currentPairings
        /\ ~currentPairings[KeyOf(p, q)].isActive
        /\ ~currentPairings[KeyOf(q, p)].isActive
        /\ ActiveRecord(p, r)
        /\ ActiveRecord(r, p)

\* The eligibility of x as a candidate for the caller c, from the stored
\* records: not the caller, onboarded, presence not older than 300 s, an
\* active pool entry, joined at most 300 s ago.
EligibleFor(x, c) ==
    /\ x # c
    /\ x \in DOMAIN userProfiles
    /\ userProfiles[x].onboardingComplete
    /\ x \in DOMAIN activeUsers
    /\ now - activeUsers[x].lastActive <= 300
    /\ x \in DOMAIN matchmakingPool
    /\ matchmakingPool[x].isActive
    /\ now - matchmakingPool[x].timeJoined <= 300

FindSucceeded == last.op = "findRandomPeer" /\ last.status = "ok"

\* C3: whenever findPeer succeeds for caller C and returns X, X is eligible
\* for C and no entry before X in the pool's iteration order is eligible.
\* (findRandomPeer changes no store, so the state after the call is the state
\* the call scanned; the result is determined by that state.)
C3_FirstEligible ==
    (FindSucceeded /\ last.value # <<>>) =>
        /\ EligibleFor(last.value[1], last.caller)
        /\ \A y \in DOMAIN matchmakingPool :
               y < last.value[1] => ~EligibleFor(y, last.caller)

\* findPeer returned X while a later entry of the pool is eligible too.
C3_Witness ==
    /\ FindSucceeded
    /\ last.value # <<>>
    /\ \E y \in DOMAIN matchmakingPool :
           y > last.value[1] /\ EligibleFor(y, last.caller)

\* The preconditions of findPeer on its caller.
FindAllowed(c) ==
    /\ hasPermission(c, "user")
    /\ c \in DOMAIN userProfiles
    /\ userProfiles[c].onboardingComplete
    /\ c \in DOMAIN activeUsers
    /\ now - activeUsers[c].lastActive <= 300
    /\ c \in DOMAIN matchmakingPool
    /\ matchmakingPool[c].isActive

C4_NoneIffNoCandidate ==
    (last.op = "findRandomPeer" /\ FindAllowed(last.caller)) =>
        /\ last.status = "ok"
        /\ (last.value = <<>>) <=>
               ~(\E x \in Principals : EligibleFor(x, last.caller))

C4_JoinThenFind ==
    (/\ last.op = "joinMatchmakingPool"
     /\ last.status = "ok"
     /\ last'.op = "findRandomPeer"
     /\ last'.caller # last.caller
     /\ FindAllowed(last'.caller))
        => (last'.status = "ok" /\ last'.value # <<>>)

\* C4: findPeer by an authorized, onboarded, active, in-pool caller never
\* fails, and returns none exactly when no other participant is eligible; a
\* findPeer that directly follows a successful join by another participant
\* returns an identity.
C4_FindPeerNoneOnlyWhenEmpty ==
    []C4_NoneIffNoCandidate /\ [][C4_JoinThenFind]_vars

\* findPeer returned none to a caller that meets its preconditions, while
\* another participant waits in the pool but is no longer eligible.
C4_Witness ==
    /\ FindSucceeded
    /\ last.value = <<>>
    /\ FindAllowed(last.caller)
    /\ \E x \in Principals \ {last.caller} :
           x \in DOMAIN matchmakingPool /\ matchmakingPool[x].isActive

\* The preconditions of pair on its caller, as the code checks them.
PairAllowed(c) ==
    /\ hasPermission(c, "user")
    /\ hasCompletedOnboarding(c)
    /\ isUserActive(c)
    /\ isUserInMatchmakingPool(c)

C5_Step ==
    last'.op = "matchWithPeer" =>
        /\ ~EligibleFor(last'.peer, last'.caller) =>
               /\ last'.status # "ok"
               /\ PairAllowed(last'.caller) => last'.status = "InvalidPeer"
               /\ UNCHANGED <<currentPairings, matchmakingPool>>
        /\ last'.status = "ok" =>
               \A other \in Principals \ {last'.caller} :
                   EligibleFor(last'.caller, other)

\* C5: pair(peer) fails with InvalidPeer and changes no pairing record and no
\* pool entry whenever the peer is the caller itself, is not onboarded, is not
\* presence-active, has no active pool entry or joined more than 300 s ago;
\* pair succeeds only for a caller that satisfies the same predicate.
C5_PairRejectsIneligiblePeer == [][C5_Step]_vars

C6_AfterPair ==
    PairSucceeded =>
        /\ ~isUserInMatchmakingPool(last.caller)
        /\ ~isUserInMatchmakingPool(last.peer)
        /\ last.value = KeyOf(last.caller, last.peer)
        /\ ActiveRecord(last.caller, last.peer)

C6_NotInPoolStep ==
    \A u \in Principals :
        ~(u \in DOMAIN matchmakingPool /\ matchmakingPool[u].isActive) =>
            /\ ~(/\ last'.op = "findRandomPeer"
                 /\ last'.status = "ok"
                 /\ last'.value = <<u>>)
            /\ ~(/\ last'.op = "matchWithPeer"
                 /\ last'.status = "ok"
                 /\ last'.peer = u)

\* C6: after pair(Q) succeeds for caller P, neither P nor Q is in the waiting
\* pool and the value returned is the key of (P,Q), under which an active
\* record is stored; a participant that is not in the pool is not returned by
\* findPeer and is not accepted as the target of pair.
C6_PairLeavesPool == []C6_AfterPair /\ [][C6_NotInPoolStep]_vars

C6_Witness ==
    /\ PairSucceeded
    /\ last.caller # last.peer
    /\ last.caller \notin DOMAIN matchmakingPool
    /\ last.peer \notin DOMAIN matchmakingPool
    /\ last.value = KeyOf(last.caller, last.peer)

(***************************************************************************)
(* Properties of the signaling relay store.                                *)
(***************************************************************************)
\* What getSignalingState(peer) returns to caller is a session with the offer
\* o, no answer and no candidate.
ReadsFreshOffer(caller, peer, o) ==
    /\ Len(getSignalingStateData(caller, peer)) = 1
    /\ getSignalingStateData(caller, peer)[1].offer = <<o>>
    /\ getSignalingStateData(caller, peer)[1].answer = <<>>
    /\ getSignalingStateData(caller, peer)[1].iceCandidates = <<>>

\* C7: after createOffer(B, o) succeeds for caller A, getSignalingState by A
\* (with peer B) and by B (with peer A) both return a session with offer o, no
\* answer and an empty candidate list, whatever was stored for the pair before.
C7_OfferReadByBothParties ==
    (last.op = "createOffer" /\ last.status = "ok") =>
        /\ ReadsFreshOffer(last.caller, last.peer, last.arg)
        /\ ReadsFreshOffer(last.peer, last.caller, last.arg)

\* C8: at most one signaling session is stored per unordered pair of
\* participants: never one under the key of (A,B) and another under the key
\* of (B,A).
C8_OneSessionPerPair ==
    \A a \in Principals, b \in Principals :
        a # b => ~(/\ KeyOf(a, b) \in DOMAIN signalingStorage
                   /\ KeyOf(b, a) \in DOMAIN signalingStorage)

\* The checks of the relay operations on a caller and a peer that come before
\* the look-up of the session.
RelayPartiesValid(c, p) ==
    /\ c # p
    /\ hasPermission(c, "user") /\ hasCompletedOnboarding(c)
    /\ hasPermission(p, "user") /\ hasCompletedOnboarding(p)

C9_Step ==
    last'.op = "sendAnswer" =>
        LET key == KeyOf(last'.peer, last'.caller)
            offered == /\ key \in DOMAIN signalingStorage
                       /\ signalingStorage[key].offer # <<>>
        IN  /\ DOMAIN signalingStorage' = DOMAIN signalingStorage
            /\ ~offered =>
                   /\ last'.status # "ok"
                   /\ signalingStorage' = signalingStorage
                   /\ RelayPartiesValid(last'.caller, last'.peer) =>
                          last'.status = "NoOfferFound"
            /\ last'.status # "ok" => signalingStorage' = signalingStorage
            /\ last'.status = "ok" =>
                   /\ offered
                   /\ signalingStorage'[key] =
                          [offer |-> signalingStorage[key].offer,
                           answer |-> <<last'.arg>>,
                           iceCandidates |-> signalingStorage[key].iceCandidates,
                           lastUpdated |-> now']
                   /\ \A k \in DOMAIN signalingStorage \ {key} :
                          signalingStorage'[k] = signalingStorage[k]

\* C9: sendAnswer(peer, a) fails and leaves the signaling store unchanged when
\* no session is stored under the key of (peer, caller) or that session has no
\* offer, with NoOfferFound when caller and peer pass the checks that come
\* first; when it succeeds it sets the answer and lastUpdated of that session
\* and nothing else; it never creates or removes a session.
C9_SendAnswerNeedsOffer == [][C9_Step]_vars

\* An answer was stored in a session that holds candidates.
C9_Witness ==
    /\ last.op = "sendAnswer"
    /\ last.status = "ok"
    /\ KeyOf(last.peer, last.caller) \in DOMAIN signalingStorage
    /\ signalingStorage[KeyOf(last.peer, last.caller)].answer = <<last.arg>>
    /\ signalingStorage[KeyOf(last.peer, last.caller)].offer # <<>>
    /\ Len(signalingStorage[KeyOf(last.peer, last.caller)].iceCandidates) > 0

\* s is a prefix of t.
IsPrefix(s, t) == Len(s) <= Len(t) /\ \A i \in 1..Len(s) : s[i] = t[i]

C10_Step ==
    last'.op = "exchangeCandidates" =>
        LET key1 == KeyOf(last'.caller, last'.peer)
            key2 == KeyOf(last'.peer, last'.caller)
            stored == {key1, key2} \cap DOMAIN signalingStorage
        IN  /\ \A k \in DOMAIN signalingStorage :
                   /\ k \in DOMAIN signalingStorage'
                   /\ IsPrefix(signalingStorage[k].iceCandidates,
                               signalingStorage'[k].iceCandidates)
            /\ last'.status # "ok" => signalingStorage' = signalingStorage
            /\ (last'.status = "ok" /\ stored # {}) =>
                   \E key \in stored :
                       /\ DOMAIN signalingStorage' = DOMAIN signalingStorage
                       /\ signalingStorage'[key] =
                              [offer |-> signalingStorage[key].offer,
                               answer |-> signalingStorage[key].answer,
                               iceCandidates |->
                                   Append(signalingStorage[key].iceCandidates, last'.arg),
                               lastUpdated |-> now']
                       /\ \A k \in DOMAIN signalingStorage \ {key} :
                              signalingStorage'[k] = signalingStorage[k]
            /\ (last'.status = "ok" /\ stored = {}) =>
                   \E key \in {key1, key2} :
                       /\ DOMAIN signalingStorage' = DOMAIN signalingStorage \cup {key}
                       /\ signalingStorage'[key] =
                              [offer |-> <<>>, answer |-> <<>>,
                               iceCandidates |-> <<last'.arg>>,
                               lastUpdated |-> now']
                       /\ \A k \in DOMAIN signalingStorage :
                              signalingStorage'[k] = signalingStorage[k]

\* C10: exchangeCandidate(peer, c) appends c at the end of the candidate list
\* of a session stored for the pair, keeping its offer, its answer and the
\* earlier candidates in order; when no session is stored for the pair it
\* creates one with no offer, no answer and the candidates [c]; it never
\* removes or reorders a stored candidate of any session.
C10_CandidatesAppendOnly == [][C10_Step]_vars

\* A second candidate was appended to a session that holds an offer and an
\* answer.
C10_Witness ==
    /\ last.op = "exchangeCandidates"
    /\ last.status = "ok"
    /\ \E k \in {KeyOf(last.caller, last.peer), KeyOf(last.peer, last.caller)} :
           /\ k \in DOMAIN signalingStorage
           /\ signalingStorage[k].offer # <<>>
           /\ signalingStorage[k].answer # <<>>
           /\ Len(signalingStorage[k].iceCandidates) = 2
           /\ signalingStorage[k].iceCandidates[1] # signalingStorage[k].iceCandidates[2]
           /\ signalingStorage[k].iceCandidates[2] = last.arg

\* C11: calling cleanupSignaling(peer) twice in a row by the same onboarded
\* participant never raises an error on the second call, and after each of the
\* two calls no signaling session remains under either key ordering of
\* (caller, peer).
C11_Step ==
    (/\ last.op = "cleanupSignalingState" /\ last.status = "ok"
     /\ last'.op = "cleanupSignalingState"
     /\ last'.caller = last.caller /\ last'.peer = last.peer) =>
        /\ last'.status = "ok"
        /\ KeyOf(last.caller, last.peer) \notin DOMAIN signalingStorage
        /\ KeyOf(last.peer, last.caller) \notin DOMAIN signalingStorage
        /\ KeyOf(last.caller, last.peer) \notin DOMAIN signalingStorage'
        /\ KeyOf(last.peer, last.caller) \notin DOMAIN signalingStorage'

C11_CleanupTwiceNeverErrors == [][C11_Step]_vars

\* The map m without the keys of S.
MapWithout(m, S) == [k \in DOMAIN m \ S |-> m[k]]

C12_Step ==
    last'.op = "cleanupSignalingState" =>
        LET key1 == KeyOf(last'.caller, last'.peer)
            key2 == KeyOf(last'.peer, last'.caller)
            stored == {key1, key2} \cap DOMAIN signalingStorage
            permitted == /\ hasPermission(last'.caller, "user")
                         /\ hasCompletedOnboarding(last'.caller)
        IN  /\ (permitted /\ stored # {}) =>
                   /\ last'.status = "ok"
                   /\ signalingStorage' = MapWithout(signalingStorage, {key1, key2})
            /\ (permitted /\ stored = {}) => last'.status = "Unauthorized"
            /\ last'.status # "ok" => signalingStorage' = signalingStorage
            /\ last'.status = "ok" => stored # {}

\* C12: cleanupSignaling(peer) deletes the sessions under both key orderings
\* of (caller, peer), and nothing else, when a session of the pair is stored
\* under at least one of them, and fails with Unauthorized, deleting nothing,
\* when none is stored under either key.
C12_CleanupDeletesBothOrFails == [][C12_Step]_vars

\* A cleanup by a participant succeeded and left no session of the pair.
C12_Witness ==
    /\ last.op = "cleanupSignalingState"
    /\ last.status = "ok"
    /\ last.caller # last.peer
    /\ KeyOf(last.caller, last.peer) \notin DOMAIN signalingStorage
    /\ KeyOf(last.peer, last.caller) \notin DOMAIN signalingStorage

\* C13: getSignalingState(peer) by an authorized, onboarded caller returns
\* none, not an error, when no session is stored under the key of
\* (caller, peer) or of (peer, caller); any session it returns is the one
\* stored under one of those two keys; the call changes no stored state.
C13_Step ==
    last'.op = "getSignalingState" =>
        LET key1 == KeyOf(last'.caller, last'.peer)
            key2 == KeyOf(last'.peer, last'.caller)
            stored == {key1, key2} \cap DOMAIN signalingStorage
            permitted == /\ hasPermission(last'.caller, "user")
                         /\ hasCompletedOnboarding(last'.caller)
                         /\ hasPermission(last'.peer, "user")
        IN  /\ UNCHANGED <<now, stores>>
            /\ (permitted /\ stored = {}) =>
                   (last'.status = "ok" /\ last'.value = <<>>)
            /\ (last'.status = "ok" /\ last'.value # <<>>) =>
                   \E k \in stored : last'.value = <<signalingStorage[k]>>
            /\ last'.status # "ok" => last'.value = <<>>

C13_GetSignalingStateOwnPairOnly == [][C13_Step]_vars

\* A participant read none for its pair with a second participant while the
\* session of the second and the third participant is stored.
C13_Witness ==
    /\ last.op = "getSignalingState"
    /\ last.status = "ok"
    /\ last.value = <<>>
    /\ last.caller # last.peer
    /\ \E r \in Principals \ {last.caller, last.peer} :
           KeyOf(last.peer, r) \in DOMAIN signalingStorage

(***************************************************************************)
(* Properties of the watch-together store.                                 *)
(***************************************************************************)
\* The text key of the ordered pair (a, b) in the watch-together store.
SyncKeyOf(a, b) == <<a, 0, b>>

\* getSyncState(peer) by caller passes its checks and returns exactly s.
ReadsSyncState(caller, peer, s) ==
    /\ hasPermission(caller, "user")
    /\ hasCompletedOnboarding(caller)
    /\ hasPermission(peer, "user")
    /\ getYouTubeSessionStateData(caller, peer) = <<s>>

SetSyncSucceeded == last.op = "setYouTubeSessionState" /\ last.status = "ok"

\* C14: after setSyncState(peer, s) succeeds for caller A with peer B,
\* getSyncState by A and by B both return exactly s, whatever version and
\* lastUpdated the state stored before had; the store never keeps two sync
\* sessions for the same unordered pair.
C14_LastWriterWins ==
    /\ SetSyncSucceeded =>
           /\ ReadsSyncState(last.caller, last.peer, last.arg)
           /\ ReadsSyncState(last.peer, last.caller, last.arg)
    /\ \A a \in Principals, b \in Principals :
           a # b => ~(/\ SyncKeyOf(a, b) \in DOMAIN youtubeSessions
                      /\ SyncKeyOf(b, a) \in DOMAIN youtubeSessions)

\* The peer of the session's first writer overwrote the stored state with one
\* of the lowest version and the oldest lastUpdated.
C14_Witness ==
    /\ SetSyncSucceeded
    /\ SyncKeyOf(last.peer, last.caller) \in DOMAIN youtubeSessions
    /\ last.arg.version = 1
    /\ last.arg.lastUpdated = 10
    /\ youtubeSessions[SyncKeyOf(last.peer, last.caller)] = last.arg

(***************************************************************************)
(* Properties of the connection orchestrator.                              *)
(***************************************************************************)
\* The relay cleanup was issued once more for the peer of the attempt.
CleanupIssuedInStep ==
    /\ attempt # <<>>
    /\ attempt' =
           <<[peer |-> attempt[1].peer,
              cleanups |-> IF attempt[1].cleanups < MaxCounted
                           THEN attempt[1].cleanups + 1
                           ELSE MaxCounted]>>

C15_Step ==
    (/\ last'.op = "signalingTimeout"
     /\ connection.state = "connecting"
     /\ ~hasProgressRef) =>
        /\ connection'.state = "error"
        /\ connection'.error = TimeoutCause
        /\ connection.peer # <<>>
        /\ attempt # <<>>
        /\ attempt[1].peer = connection.peer[1]
        /\ CleanupIssuedInStep

\* C15: when the signaling timer fires while the orchestrator is connecting
\* and no progress was marked since it entered connecting, the state becomes
\* error with the timeout cause and the relay cleanup is issued for the
\* current peer.
C15_TimeoutWithoutProgress == [][C15_Step]_vars

\* The timer fired on an attempt without progress.
C15_Witness ==
    /\ last.op = "signalingTimeout"
    /\ connection.state = "error"
    /\ connection.error = TimeoutCause
    /\ attempt # <<>>
    /\ attempt[1].cleanups = 1
    /\ signalingTimeoutRef = "null"

\* C16: the orchestrator never stays in connecting forever, when the browser
\* fires its timers and settles its calls.
C16_NeverConnectingForever == []<>(connection.state # "connecting")

\* C17: after the third "disconnected" report in a row the state is error, no
\* retry is scheduled by that report and no ICE restart is executed later.
C17_Inv ==
    (/\ last.op = "onconnectionstatechange"
     /\ last.arg = "disconnected"
     /\ disconnectedInRow = MAX_RETRY_ATTEMPTS) =>
        /\ connection.state = "error"
        /\ retryTimeoutRef = "null"

C17_Step ==
    (/\ disconnectedInRow >= MAX_RETRY_ATTEMPTS
     /\ last'.op = "retryTimeout") => last'.value = <<>>

C17_ThirdDisconnectIsError == []C17_Inv /\ [][C17_Step]_vars

\* The step takes the orchestrator into error from another state.
EntersError == connection.state # "error" /\ connection'.state = "error"

\* The state after the step is the one performFullCleanup leaves, and the
\* relay cleanup was issued in the step when a peer was set.
RanFullCleanup ==
    /\ signalingTimeoutRef' = "null"
    /\ retryTimeoutRef' = "null"
    /\ peerConnectionRef' = <<>>
    /\ iceCandidatesQueueRef' = <<>>
    /\ sentCandidatesRef' = {}
    /\ processedCandidatesRef' = {}
    /\ (connection.peer # <<>> /\ attempt # <<>>
            /\ attempt[1].peer = connection.peer[1]) => CleanupIssuedInStep

\* C18: every transition of the orchestrator into error runs the full
\* cleanup: timers cancelled, the transport closed and its handlers detached,
\* candidate queue and dedup sets cleared, and the relay cleanup issued for
\* the peer if one is set.
C18_ErrorRunsFullCleanup == [][EntersError => RanFullCleanup]_vars

\* C19: for one connection attempt the relay cleanup for the attempt's peer
\* is issued at most once while the attempt lasts, and exactly once when the
\* orchestrator is back in idle.
C19_CleanupIssuedOnce ==
    attempt # <<>> =>
        /\ attempt[1].cleanups <= 1
        /\ connection.state = "idle" => attempt[1].cleanups = 1

\* C20: while the orchestrator is in idle or error no signaling timer and no
\* retry timer is pending, and no retry timer that fires in error restarts
\* ICE.
C20_Inv ==
    connection.state \in {"idle", "error"} =>
        /\ signalingTimeoutRef # "pending"
        /\ retryTimers = 0

C20_Step ==
    (connection.state = "error" /\ last'.op = "retryTimeout") => last'.value = <<>>

C20_NoTimerAfterExit == []C20_Inv /\ [][C20_Step]_vars

\* C22: from any orchestrator state an explicit disconnect() ends with state
\* idle, peer and error cleared, no pending timer, no transport object, and
\* empty candidate queue and dedup sets, and it issues the relay cleanup if
\* and only if a peer was set when it was called.
C22_Step ==
    last'.op = "disconnect" =>
        /\ connection' = [state |-> "idle", error |-> "", peer |-> <<>>]
        /\ signalingTimeoutRef' # "pending"
        /\ retryTimers' = 0
        /\ peerConnectionRef' = <<>>
        /\ iceCandidatesQueueRef' = <<>>
        /\ sentCandidatesRef' = {}
        /\ processedCandidatesRef' = {}
        /\ IF connection.peer # <<>>
           THEN CleanupIssuedInStep
           ELSE attempt' = attempt

C22_DisconnectLeavesNothing == [][C22_Step]_vars

\* C23: a participant whose last heartbeat was at t is active at every instant
\* with now - t <= 300 s (300 s included) and not active from now - t >= 301 s
\* on; a heartbeat records the instant of the call; findPeer never returns a
\* participant that is not active; activeCount is the number of participants
\* for which isActive holds.
C23_Inv ==
    /\ \A p \in Principals :
           IF p \in DOMAIN activeUsers
           THEN /\ now - activeUsers[p].lastActive <= 300 => isUserActive(p)
                /\ now - activeUsers[p].lastActive >= 301 => ~isUserActive(p)
           ELSE ~isUserActive(p)
    /\ (last.op = "updateActivity" /\ last.status = "ok") =>
           /\ activeUsers[last.caller].lastActive = now
           /\ isUserActive(last.caller)
    /\ (last.op = "findRandomPeer" /\ last.status = "ok") =>
           (last.value # <<>> => isUserActive(last.value[1]))
    /\ last.op = "getActiveUserCount" =>
           last.value = Cardinality({p \in Principals : isUserActive(p)})

\* Only a participant's own heartbeat makes them active again.
C23_Step ==
    \A p \in Principals :
        (isUserActive(p)' /\ ~isUserActive(p)) =>
            (last'.op = "updateActivity" /\ last'.caller = p)

C24_Step ==
    (/\ last'.op = "nextPeer"
     /\ ActiveRecordsOf(last'.caller) # {}
     /\ hasCompletedOnboarding(last'.caller)
     /\ isUserActive(last'.caller)) =>
        /\ last'.status = "ok"
        /\ \A key \in DOMAIN currentPairings' :
               currentPairings'[key].isActive =>
                   /\ currentPairings'[key].user1 # last'.caller
                   /\ currentPairings'[key].user2 # last'.caller
        /\ last'.value # <<>> => EligibleFor(last'.value[1], last'.caller)

C24_NextPeerSkipsTheMatch == [][C24_Step]_vars

\* The keys of the pair (a, b) in the signaling store and in the sync store.
PairKeys(a, b) == {<<a, b>>, <<b, a>>, <<a, 0, b>>, <<b, 0, a>>}

\* C25: terminate(peer) succeeds whether or not state of the pair exists,
\* leaves no signaling session and no sync session under either key ordering
\* of (caller, peer) and no presence record of the caller, touches no other
\* record, and a second terminate(peer) right after succeeds and changes
\* nothing.
C25_Step ==
    last'.op = "terminateSession" =>
        /\ last'.status = "ok"
        /\ \A key \in PairKeys(last'.caller, last'.peer) :
               /\ key \notin DOMAIN signalingStorage'
               /\ key \notin DOMAIN youtubeSessions'
        /\ last'.caller \notin DOMAIN activeUsers'
        /\ \A key \in (DOMAIN signalingStorage) \ PairKeys(last'.caller, last'.peer) :
               /\ key \in DOMAIN signalingStorage'
               /\ signalingStorage'[key] = signalingStorage[key]
        /\ \A key \in (DOMAIN youtubeSessions) \ PairKeys(last'.caller, last'.peer) :
               /\ key \in DOMAIN youtubeSessions'
               /\ youtubeSessions'[key] = youtubeSessions[key]
        /\ (/\ last.op = "terminateSession"
            /\ last.caller = last'.caller
            /\ last.peer = last'.peer) =>
               /\ signalingStorage' = signalingStorage
               /\ youtubeSessions' = youtubeSessions
               /\ activeUsers' = activeUsers

C25_TerminateIdempotent == [][C25_Step]_vars

\* terminate succeeded for a pair: no session of the pair is stored and the
\* caller has no presence record, while the peer keeps theirs.
C25_Witness ==
    /\ last.op = "terminateSession"
    /\ last.status = "ok"
    /\ last.caller # last.peer
    /\ last.caller \notin DOMAIN activeUsers
    /\ \A key \in PairKeys(last.caller, last.peer) :
           key \notin DOMAIN signalingStorage /\ key \notin DOMAIN youtubeSessions
    /\ last.peer \in DOMAIN activeUsers

\* The operations of the actor that check a precondition before they write.
PreconditionOps ==
    {"joinMatchmakingPool", "findRandomPeer", "matchWithPeer", "nextPeer",
     "updateActivity", "createOffer", "sendAnswer", "exchangeCandidates",
     "cleanupSignalingState", "setYouTubeSessionState",
     "cleanupYouTubeSessionState"}

\* C26: a call of join, findPeer, pair, nextPeer, heartbeat, createOffer,
\* sendAnswer, exchangeCandidate, cleanupSignaling, setSyncState or cleanupSync
\* that fails a precondition leaves the pool, the pairing records, the presence
\* records, the signaling store and the sync store as they were.
C26_Step ==
    (last'.op \in PreconditionOps /\ last'.status # "ok") =>
        /\ matchmakingPool' = matchmakingPool
        /\ currentPairings' = currentPairings
        /\ activeUsers' = activeUsers
        /\ signalingStorage' = signalingStorage
        /\ youtubeSessions' = youtubeSessions

PoolMembers(m) == {p \in DOMAIN m : m[p].isActive}

\* C27: join fails and leaves the pool unchanged when the caller is not
\* onboarded or not presence-active; when it succeeds the caller has an
\* active pool entry joined now and no other entry changed; a second join by
\* the same caller right after a successful one succeeds, leaves the set of
\* participants with an active entry the same and changes no other entry.
C27_Step ==
    last'.op = "joinMatchmakingPool" =>
        /\ (~hasCompletedOnboarding(last'.caller) \/ ~isUserActive(last'.caller)) =>
               /\ last'.status # "ok"
               /\ matchmakingPool' = matchmakingPool
        /\ last'.status = "ok" =>
               /\ last'.caller \in PoolMembers(matchmakingPool')
               /\ matchmakingPool'[last'.caller].timeJoined = now
               /\ \A p \in DOMAIN matchmakingPool' \ {last'.caller} :
                      /\ p \in DOMAIN matchmakingPool
                      /\ matchmakingPool'[p] = matchmakingPool[p]
        /\ (/\ last.op = "joinMatchmakingPool"
            /\ last.status = "ok"
            /\ last.caller = last'.caller) =>
               /\ last'.status = "ok"
               /\ PoolMembers(matchmakingPool') = PoolMembers(matchmakingPool)
               /\ DOMAIN matchmakingPool' = DOMAIN matchmakingPool

C27_JoinIdempotent == [][C27_Step]_vars

\* A join succeeded after the clock moved and other participants had joined
\* earlier: the caller's entry carries the later instant.
C27_Witness ==
    /\ last.op = "joinMatchmakingPool"
    /\ last.status = "ok"
    /\ now = 300
    /\ matchmakingPool[last.caller] =
           [principal |-> last.caller, timeJoined |-> 300, isActive |-> TRUE]
    /\ \E p \in PoolMembers(matchmakingPool) : matchmakingPool[p].timeJoined = 0

\* C28: createOffer fails and leaves the signaling store unchanged unless the
\* caller is onboarded and presence-active and the peer is onboarded and
\* presence-active.
C28_Step ==
    (/\ last'.op = "createOffer"
     /\ ~(/\ hasCompletedOnboarding(last'.caller)
          /\ isUserActive(last'.caller)
          /\ hasCompletedOnboarding(last'.peer)
          /\ isUserActive(last'.peer))) =>
        /\ last'.status # "ok"
        /\ signalingStorage' = signalingStorage

C28_OfferNeedsActiveCaller == [][C28_Step]_vars

\* C29: setSyncState fails and leaves the sync store unchanged when the caller
\* is the peer, when the caller or the peer is not onboarded, and when the
\* caller or the peer is not presence-active.
C29_Step ==
    (/\ last'.op = "setYouTubeSessionState"
     /\ \/ last'.caller = last'.peer
        \/ ~hasCompletedOnboarding(last'.caller)
        \/ ~hasCompletedOnboarding(last'.peer)
        \/ ~isUserActive(last'.caller)
        \/ ~isUserActive(last'.peer)) =>
        /\ last'.status # "ok"
        /\ youtubeSessions' = youtubeSessions

C29_SyncNeedsActiveCaller == [][C29_Step]_vars

\* C30: the purge called by an admin removes exactly the presence records with
\* now - lastActive > 86,400 s and leaves the others as they are, so a record
\* older than 300 s and not older than 86,400 s is kept, no active participant
\* is removed and activeCount does not change; called without the admin
\* capability it fails and removes nothing.
C30_Step ==
    last'.op = "removeInactiveUsers" =>
        IF accessControlState[last'.caller] = "admin"
        THEN /\ last'.status = "ok"
             /\ DOMAIN activeUsers' =
                    {p \in DOMAIN activeUsers :
                         now - activeUsers[p].lastActive <= 86400}
             /\ \A p \in DOMAIN activeUsers' : activeUsers'[p] = activeUsers[p]
             /\ \A p \in Principals : isUserActive(p) => p \in DOMAIN activeUsers'
             /\ getActiveUserCountValue' = getActiveUserCountValue
        ELSE /\ last'.status # "ok"
             /\ activeUsers' = activeUsers

C30_PurgeRemovesOnlyDayOld == [][C30_Step]_vars

\* A purge succeeded at an instant where one record was 86,401 s old and
\* another 86,400 s: the first is gone, the second is kept.
C30_Witness ==
    /\ last.op = "removeInactiveUsers"
    /\ last.status = "ok"
    /\ now = 86401
    /\ \E p \in Principals : p \notin DOMAIN activeUsers
    /\ \E q \in DOMAIN activeUsers : now - activeUsers[q].lastActive = 86400

\* The client holds no attempt and every relay cleanup it issued has run.
TornDown ==
    /\ connection.peer = <<>>
    /\ \A i \in DOMAIN relayCalls : relayCalls[i].op # "cleanupSignalingState"

\* The live attempt towards p wrote its offer: the actor ran its createOffer.
OfferWritten(p) ==
    /\ peerConnectionRef # <<>>
    /\ isOfferCreatorRef
    /\ connection.peer = <<p>>
    /\ \A i \in DOMAIN relayCalls :
           relayCalls[i].op = "createOffer" => relayCalls[i].status = "ok"

\* C21: relay calls of a torn-down attempt have no effect on later state in
\* any delivery order: once the client is torn down and its relay cleanup has
\* run, a candidate send or an offer write of the old attempt that the actor
\* runs creates no signaling session, and a relay cleanup issued before a new
\* attempt with the same peer does not delete the offer that attempt wrote.
C21_Step ==
    /\ (/\ TornDown
        /\ last'.op \in {"exchangeCandidates", "createOffer"}
        /\ last'.caller \in ClientCallers) =>
           DOMAIN signalingStorage' \subseteq DOMAIN signalingStorage
    /\ (/\ last'.op = "cleanupSignalingState"
        /\ last'.caller \in ClientCallers
        /\ OfferWritten(last'.peer)
        /\ <<last'.caller, last'.peer>> \in DOMAIN signalingStorage) =>
           <<last'.caller, last'.peer>> \in DOMAIN signalingStorage'

C21_StaleCallsHaveNoEffect == [][C21_Step]_vars

\* C31: the error state is terminal: while state = error, a step that is not
\* disconnect(), startConnection, acceptConnection or a new permission request
\* leaves state = error; a transport report or a remote track that arrives
\* after the error does not change the state.
C31_Step ==
    (/\ connection.state = "error"
     /\ last'.op \notin {"disconnect", "startConnection", "acceptConnection",
                         "requestMicrophonePermission"}) =>
        connection'.state = "error"

C31_ErrorIsTerminal == [][C31_Step]_vars

SeqSet(s) == {s[i] : i \in DOMAIN s}

NoRepeat(s) == \A i, j \in DOMAIN s : s[i] = s[j] => i = j

\* C32: within one attempt each distinct candidate string read from the relay
\* is given to the transport at most once; a candidate read while no remote
\* description is installed is queued and not applied; once the remote
\* description is installed every queued candidate has been applied; no
\* candidate that was read is dropped.
C32_Inv ==
    peerConnectionRef # <<>> =>
        LET applied == peerConnectionRef[1].remoteCandidates
        IN  /\ NoRepeat(applied \o iceCandidatesQueueRef)
            /\ SeqSet(applied) \cup SeqSet(iceCandidatesQueueRef) = processedCandidatesRef
            /\ ~peerConnectionRef[1].remoteDescription => applied = <<>>
            /\ peerConnectionRef[1].remoteDescription => iceCandidatesQueueRef = <<>>

C32_CandidatesAppliedOnce == []C32_Inv

\* C40: the orchestrator gives to its transport, and queues for it, only
\* candidates of its peer: a candidate it sent itself in this attempt is never
\* among the applied or queued remote candidates.
C40_Inv ==
    peerConnectionRef # <<>> =>
        (SeqSet(peerConnectionRef[1].remoteCandidates) \cup SeqSet(iceCandidatesQueueRef))
            \cap sentCandidatesRef = {}

C40_OnlyPeerCandidatesApplied == []C40_Inv

(***************************************************************************)
(* The View Together page: versioned playback sync of two clients.         *)
(***************************************************************************)
\* Date.now() of a client; the clients' clocks are taken to agree with the
\* actor's, and the unit is the model's.
Date_now == now

\* The peer of the page's session.
SyncPeer(c) == CHOOSE p \in SyncClients : p # c

\* The effect applying a polled state: it is ignored when neither its
\* lastUpdated nor its version is beyond what the page tracks.
RemoteUpdateApplies(c, sessionState) ==
    ~(/\ sessionState.lastUpdated <= viewTogether[c].localLastUpdatedRef
      /\ sessionState.version <= viewTogether[c].localVersionRef)

remoteUpdateEffect(c) ==
    LET polled == getYouTubeSessionStateData(c, SyncPeer(c))
    IN  /\ hasPermission(c, "user") /\ hasCompletedOnboarding(c)
        /\ polled # <<>>
        /\ viewTogether' =
               IF RemoteUpdateApplies(c, polled[1])
               THEN [viewTogether EXCEPT
                        ![c].localVersionRef = polled[1].version,
                        ![c].localLastUpdatedRef = polled[1].lastUpdated]
               ELSE viewTogether
        /\ last' = [op |-> "remoteUpdateEffect", caller |-> c, peer |-> SyncPeer(c),
                    arg |-> polled[1], status |-> "ok",
                    value |-> IF RemoteUpdateApplies(c, polled[1])
                              THEN <<polled[1]>> ELSE <<>>]
        /\ UNCHANGED <<now, stores, orchestrator, relayCalls>>

\* sendStateUpdate: the next version, the client's time, and the write handed
\* to setSessionState.mutate.
sendStateUpdate(c, isPlaying) ==
    LET newVersion == viewTogether[c].localVersionRef + 1
        newLastUpdated == Date_now
        state == [videoId |-> "v1", playbackPosition |-> 0, isPlaying |-> isPlaying,
                  version |-> newVersion, lastUpdated |-> newLastUpdated]
    IN  \* the model carries one write under way and MaxVersion versions per client
        /\ viewTogether[c].pending = <<>>
        /\ newVersion <= MaxVersion
        /\ viewTogether' = [viewTogether EXCEPT
                               ![c].localVersionRef = newVersion,
                               ![c].localLastUpdatedRef = newLastUpdated,
                               ![c].pending = <<state>>,
                               ![c].sent = Append(@, newVersion),
                               ![c].written = <<state>>]
        /\ last' = [op |-> "sendStateUpdate", caller |-> c, peer |-> SyncPeer(c),
                    arg |-> state, status |-> "ok", value |-> <<>>]
        /\ UNCHANGED <<now, stores, orchestrator, relayCalls>>

\* The actor runs the write a client handed to setSessionState.mutate.
setSessionStateDelivers(c) ==
    /\ viewTogether[c].pending # <<>>
    /\ setYouTubeSessionState(c, SyncPeer(c), viewTogether[c].pending[1])

NextViewTogether ==
    \/ \E c \in SyncClients : sendStateUpdate(c, TRUE)
    \/ \E c \in SyncClients : setSessionStateDelivers(c)
    \/ \E c \in SyncClients : remoteUpdateEffect(c)
    \/ \E c \in SyncClients : updateActivity(c)
    \/ \E t \in TimePoints : AdvanceTime(t)

SpecViewTogether == Init /\ [][NextViewTogether]_vars

\* C33: a polled state is applied exactly when its version or its lastUpdated
\* is beyond what the page tracks; a write carries the tracked version plus
\* one and the page then tracks the written values; a page never applies the
\* state it wrote itself, and the versions a page writes strictly increase.
C33_Step ==
    LET c == last'.caller
        s == last'.arg
    IN  /\ last'.op = "remoteUpdateEffect" =>
               /\ (last'.value # <<>>) <=>
                      \/ s.version > viewTogether[c].localVersionRef
                      \/ s.lastUpdated > viewTogether[c].localLastUpdatedRef
               /\ last'.value # <<>> => viewTogether[c].written # <<s>>
        /\ last'.op = "sendStateUpdate" =>
               /\ s.version = viewTogether[c].localVersionRef + 1
               /\ viewTogether'[c].localVersionRef = s.version
               /\ viewTogether'[c].localLastUpdatedRef = s.lastUpdated
               /\ viewTogether[c].sent # <<>> =>
                      s.version > viewTogether[c].sent[Len(viewTogether[c].sent)]

C33_SyncVersionsIncrease == [][C33_Step]_vars

\* C34: once disconnect() has completed no local media stream is held live:
\* the tracks acquired for the session are stopped.
C34_Step == last'.op = "disconnect" => ~localStreamRef'

C34_DisconnectStopsLocalTracks == [][C34_Step]_vars

\* The participants an active pairing record names.
Paired == {p \in Principals :
              \E key \in DOMAIN currentPairings :
                  /\ currentPairings[key].isActive
                  /\ (currentPairings[key].user1 = p \/ currentPairings[key].user2 = p)}

\* C35: no participant is waiting (an active pool entry) and paired (named by
\* an active pairing record) at the same time.
C35_Inv == \A p \in Principals : ~(isUserInMatchmakingPool(p) /\ p \in Paired)

C35_WaitingAndPairedExclude == []C35_Inv

\* C36: a nextPeer that succeeds for P removes every active pairing record
\* naming P on either side, so no active record names P afterwards, and it
\* returns what findRandomPeer returns for P on the same pool and presence,
\* which it leaves as they were.
C36_Step ==
    (last'.op = "nextPeer" /\ last'.status = "ok") =>
        LET P == last'.caller
        IN  /\ \A key \in DOMAIN currentPairings :
                   (/\ currentPairings[key].isActive
                    /\ (currentPairings[key].user1 = P \/ currentPairings[key].user2 = P))
                       => key \notin DOMAIN currentPairings'
            /\ \A key \in DOMAIN currentPairings' :
                   currentPairings'[key].isActive =>
                       (currentPairings'[key].user1 # P /\ currentPairings'[key].user2 # P)
            /\ last'.value =
                   firstOrNull(filterEligiblePairs(MapKeysInOrder(DOMAIN matchmakingPool), P))
            /\ UNCHANGED <<matchmakingPool, activeUsers>>

C36_NextPeerDropsPairingsAndFinds == [][C36_Step]_vars

\* nextPeer succeeded with a peer for a participant whose earlier pairing
\* records, inactive by now, remain in the store.
C36_Witness ==
    /\ last.op = "nextPeer" /\ last.status = "ok" /\ last.value # <<>>
    /\ \E key \in DOMAIN currentPairings :
           /\ ~currentPairings[key].isActive
           /\ currentPairings[key].user1 = last.caller
    /\ \A key \in DOMAIN currentPairings :
           currentPairings[key].isActive => currentPairings[key].user1 # last.caller

\* C37: a "connected" report of the transport returns the retry count to 0,
\* and the orchestrator reaches error through the retry budget only on a
\* "disconnected" report that follows MAX_RETRY_ATTEMPTS others with no
\* "connected" report in between.
C37_Step ==
    last'.op = "onconnectionstatechange" =>
        /\ last'.arg = "connected" => retryAttemptsRef' = 0
        /\ (/\ last'.arg = "disconnected"
            /\ connection.state # "error"
            /\ connection'.state = "error")
               => disconnectedInRow' > MAX_RETRY_ATTEMPTS

C37_ConnectedResetsRetryBudget == [][C37_Step]_vars

\* What terminateSession leaves alone, whoever the peer is.
C38_Frame ==
    (last'.op = "terminateSession" /\ last'.status = "ok") =>
        /\ UNCHANGED <<matchmakingPool, currentPairings>>
        /\ MapGet(activeUsers', last'.peer) = MapGet(activeUsers, last'.peer)
        /\ areCurrentlyPaired(last'.caller, last'.peer) =>
               /\ generatePairingKey(last'.caller, last'.peer) \in DOMAIN currentPairings'
               /\ currentPairings'[generatePairingKey(last'.caller, last'.peer)].isActive

\* C38 as stated: terminateSession(peer) leaves the waiting pool, every
\* pairing record and the peer's presence record unchanged, and a pairing of
\* caller and peer that was active is still active.
C38_TerminateKeepsPeerPresence == [][C38_Frame]_vars

\* C38, for a peer other than the caller: terminateSession(peer) leaves the
\* waiting pool, every pairing record and the peer's presence record
\* unchanged, and a pairing of caller and peer that was active is still active.
C38_Step ==
    (last'.op = "terminateSession" /\ last'.status = "ok") =>
        /\ UNCHANGED <<matchmakingPool, currentPairings>>
        /\ last'.peer # last'.caller =>
               MapGet(activeUsers', last'.peer) = MapGet(activeUsers, last'.peer)
        /\ areCurrentlyPaired(last'.caller, last'.peer) =>
               /\ generatePairingKey(last'.caller, last'.peer) \in DOMAIN currentPairings'
               /\ currentPairings'[generatePairingKey(last'.caller, last'.peer)].isActive

C38_TerminateKeepsPoolAndPairings == [][C38_Step]_vars

\* terminateSession ended the session of two paired participants while a
\* third one waits in the pool.
C38_Witness ==
    /\ last.op = "terminateSession" /\ last.status = "ok"
    /\ last.peer # last.caller
    /\ areCurrentlyPaired(last.caller, last.peer)
    /\ last.peer \in DOMAIN activeUsers
    /\ \E p \in Principals : isUserInMatchmakingPool(p)

\* Every stored session that has an answer has an offer.
C39_Inv ==
    \A key \in DOMAIN signalingStorage :
        signalingStorage[key].answer # <<>> => signalingStorage[key].offer # <<>>

\* An answer appears or changes under key(A, B) only by a sendAnswer of B,
\* who is not A, the writer of the offer.
C39_Step ==
    \A key \in DOMAIN signalingStorage' :
        (/\ signalingStorage'[key].answer # <<>>
         /\ \/ key \notin DOMAIN signalingStorage
            \/ signalingStorage[key].answer # signalingStorage'[key].answer)
            => /\ last'.op = "sendAnswer" /\ last'.status = "ok"
               /\ key = createOfferKey(last'.peer, last'.caller)
               /\ last'.caller # last'.peer
               /\ signalingStorage'[key].answer = <<last'.arg>>

\* C39: every stored session that has an answer has an offer, and the answer
\* stored under key(A, B) was written by B: the writer of an offer never
\* installs the answer to it.
C39_AnswerFollowsOfferByPeer == []C39_Inv /\ [][C39_Step]_vars

\* Participant 2 answered the offer of participant 1 while its own offer to
\* participant 1 is stored without an answer.
C39_Witness ==
    /\ last.op = "sendAnswer" /\ last.status = "ok" /\ last.caller = 2
    /\ <<1, 2>> \in DOMAIN signalingStorage
    /\ signalingStorage[<<1, 2>>].answer # <<>>
    /\ <<2, 1>> \in DOMAIN signalingStorage
    /\ signalingStorage[<<2, 1>>].offer # <<>>
    /\ signalingStorage[<<2, 1>>].answer = <<>>

====
